---- MODULE Spec2Model ----
(***************************************************************************)
(* AquaChain: the ledger of tariffs, reservoirs, consumers and token       *)
(* balances, driven by the REST handlers of api/src/controllers.           *)
(*                                                                         *)
(* The handlers (PostTariff, PostReservoir, PostConsumer, PutConsumer,     *)
(* WaterCharge, WasteCharge, WaterPay, WastePay) are translated from the   *)
(* TypeScript controllers.  The on-chain instructions they submit          *)
(* (registerConsumer, updateConsumer, useWater, ...) live in the Rust      *)
(* program, which is not among the TypeScript sources; their effect is     *)
(* taken from the design specification, and the seasonal pricing from the  *)
(* expected-value computations of tests/tariffs.ts.                        *)
(***************************************************************************)
EXTENDS Integers, FiniteSets, Sequences, TLC

(***************************************************************************)
(* Program constants                                                       *)
(***************************************************************************)
SCALE == 1000

TariffTypes == {"uniformIbt", "seasonalIbt", "seasonalDbt"}

\* a request field that is absent (undefined)
NoVal == -1

\* a tariff_type field that is absent
NoType == ""

\* a request header that is absent
NoHeader == ""

\* no request has passed through the middlewares
NoHeaders == [authorization |-> NoHeader, consumerAuthorization |-> NoHeader]

(***************************************************************************)
(* Bounds of the model                                                     *)
(***************************************************************************)
MaxCapacity == 2
MaxAmount == 4
MaxBalance == 7
MaxWaste == 4
MaxTestBalance == 900000
MaxTestWaste == 4000

TariffKeys == {"t1"}
ReservoirKeys == {"r1"}
ConsumerKeys == {"c1"}

WaterRates == {500}
WasteRates == {1500}
BlockRates == {1500}
ReservoirLevels == {0, 1000, 1500}
ReservoirCapacities == {1000}

\* the inputs of tests/tariffs.ts and tests/payments.ts
TestWaterAmounts == {100000, 120000}
TestWasteAmounts == {10000}
TestPayAmounts == {2000, 50000}

VARIABLES tariffs, reservoirs, consumers, wtk, watc, wst, wstc, last,
          tokensAccount, mints, calls, pending, headers, middleware

\* wstc: the waste-capacity tokens (WSTC) of the extended program, which the
\* base program does not have
ledger == <<tariffs, reservoirs, consumers, wtk, watc, wst, wstc>>
\* the token directory, the mints in existence and the InitOrFetchTokens calls
registry == <<tokensAccount, mints, calls>>
\* middleware: per server, the module variable tokens of the middleware module
\* and the state of its tokensPromise
\* headers: the Authorization and Consumer-Authorization headers of the request
\* last records, for the requests that pass through the middlewares
vars == <<tariffs, reservoirs, consumers, wtk, watc, wst, wstc, last,
          tokensAccount, mints, calls, pending, headers, middleware>>

(***************************************************************************)
(* Arithmetic                                                              *)
(***************************************************************************)
Min(a, b) == IF a <= b THEN a ELSE b

\* the largest unsigned integer the ledger arithmetic represents
MaxUint == 2147483647

CeilDiv(a, d) == (a + d - 1) \div d

\* ceil(a * b / d), evaluated as (a div d) * b + ceil((a mod d) * b / d)
MulCeilDiv(a, b, d) == (a \div d) * b + CeilDiv((a % d) * b, d)


(***************************************************************************)
(* Pricing (tests/tariffs.ts, "Expected token calculations")               *)
(***************************************************************************)
\* variant: the whole draw is treated as in-contract
InContractAll(amount, balance) == amount

\* the part of a water draw covered by the capacity tokens still held
InContract(amount, balance) == Min(amount, balance)

\* variant: the base cost truncated instead of rounded up
BaseCostFloor(units, waterRate) ==
  (units \div SCALE) * waterRate + ((units % SCALE) * waterRate) \div SCALE

\* baseCost: the in-contract units at the tariff's water rate
BaseCost(units, waterRate) == MulCeilDiv(units, waterRate, SCALE)

\* variant: the multiplier ignores the reservoir level
SeasonalMultiplierFull(level, capacity) == capacity

\* seasonalMultiplier = capacity - level
SeasonalMultiplier(level, capacity) == capacity - level

\* variant: the multiplier of the unscaled revision, 1 - level / capacity
DecreasingMultiplierOne(level, capacity) == SCALE - (level * SCALE) \div capacity

\* variant: the multiplier rises with the reservoir level
DecreasingMultiplierRising(level, capacity) == (level * SCALE) \div capacity

\* decreasingMultiplier = 2 * SCALE - level * SCALE / capacity
DecreasingMultiplier(level, capacity) == 2 * SCALE - (level * SCALE) \div capacity

\* variant: the decreasing multiplier is not capped
UncappedMultiplier(level, capacity) == 2 * SCALE - (level * SCALE) \div capacity

\* the decreasing multiplier, capped so that it never goes below 0
CappedMultiplier(level, capacity) ==
  IF (level * SCALE) \div capacity > 2 * SCALE THEN 0
  ELSE DecreasingMultiplier(level, capacity)

\* variant: every tariff type is priced as seasonalIbt
ExcessCostSeasonal(type, extra, blockRate, level, capacity) ==
  MulCeilDiv(MulCeilDiv(extra, blockRate, SCALE), capacity - level, SCALE)

\* variant: the excess cost truncated instead of rounded up
ExcessCostTruncated(type, extra, blockRate, level, capacity) ==
  CASE type = "uniformIbt" -> (extra * blockRate) \div SCALE
    [] type = "seasonalIbt" ->
         (((extra * blockRate) \div SCALE) * SeasonalMultiplier(level, capacity))
           \div SCALE
    [] type = "seasonalDbt" ->
         (((extra * blockRate) \div SCALE) * DecreasingMultiplier(level, capacity))
           \div SCALE

\* the excess units at the consumer's block rate, scaled by the tariff type
ExcessCost(type, extra, blockRate, level, capacity) ==
  CASE type = "uniformIbt" -> MulCeilDiv(extra, blockRate, SCALE)
    [] type = "seasonalIbt" ->
         MulCeilDiv(MulCeilDiv(extra, blockRate, SCALE),
                    SeasonalMultiplier(level, capacity), SCALE)
    [] type = "seasonalDbt" ->
         MulCeilDiv(MulCeilDiv(extra, blockRate, SCALE),
                    CappedMultiplier(level, capacity), SCALE)

\* the excess price cannot be computed in unsigned arithmetic: a difference
\* below 0 or a division by 0
ExcessUndefined(type, level, capacity) ==
  \/ type = "seasonalIbt" /\ level > capacity
  \/ type = "seasonalDbt" /\ capacity = 0

\* variant: no product is ever found too large
NeverOverflows(a, b) == FALSE

\* the product a * b is not representable
Overflows(a, b) == b > 0 /\ a > MaxUint \div b

\* a product of the usage cost is not representable
UsageOverflow(type, amount, balance, waterRate, blockRate, level, capacity) ==
  LET units == InContract(amount, balance)
      extra == amount - units
  IN  \/ Overflows(units, waterRate)
      \/ /\ extra > 0
         /\ \/ Overflows(extra, blockRate)
            \/ /\ type = "seasonalIbt"
               /\ \/ Overflows(blockRate, capacity - level)
                  \/ Overflows(MulCeilDiv(extra, blockRate, SCALE), capacity - level)
            \/ /\ type = "seasonalDbt"
               /\ \/ Overflows(level, SCALE)
                  \/ Overflows(MulCeilDiv(extra, blockRate, SCALE),
                               CappedMultiplier(level, capacity))

UsageCost(type, amount, balance, waterRate, blockRate, level, capacity) ==
  LET units == InContract(amount, balance)
  IN  BaseCost(units, waterRate)
        + (IF amount > units
             THEN ExcessCost(type, amount - units, blockRate, level, capacity)
             ELSE 0)

\* variant: the waste cost truncated instead of rounded up
WasteCostFloor(amount, wasteRate) ==
  (amount \div SCALE) * wasteRate + ((amount % SCALE) * wasteRate) \div SCALE

WasteCost(amount, wasteRate) == MulCeilDiv(amount, wasteRate, SCALE)

(***************************************************************************)
(* Instructions of the on-chain program.  XxxError is the error the        *)
(* instruction fails with ("none": it succeeds); Xxx is its effect on the  *)
(* ledger, which is nothing when it fails.                                 *)
(***************************************************************************)
initializeTariffError(k) ==
  IF k \in DOMAIN tariffs THEN "AlreadyExists" ELSE "none"

initializeTariff(k, waterRate, wasteRate, type) ==
  IF initializeTariffError(k) # "none" THEN UNCHANGED ledger
  ELSE /\ tariffs' = tariffs @@ (k :> [tariffKey |-> k, waterRate |-> waterRate,
                                       wasteRate |-> wasteRate, tariffType |-> type])
       /\ UNCHANGED <<reservoirs, consumers, wtk, watc, wst, wstc>>

initializeReservoirError(k) ==
  IF k \in DOMAIN reservoirs THEN "AlreadyExists" ELSE "none"

initializeReservoir(k, level, capacity) ==
  IF initializeReservoirError(k) # "none" THEN UNCHANGED ledger
  ELSE /\ reservoirs' = reservoirs @@ (k :> [reservoirKey |-> k, currentLevel |-> level,
                                             capacity |-> capacity])
       /\ UNCHANGED <<tariffs, consumers, wtk, watc, wst, wstc>>

registerConsumerError(c, tk, rk) ==
  IF c \in DOMAIN consumers THEN "AlreadyExists"
  ELSE IF tk \notin DOMAIN tariffs THEN "TariffNotFound"
  ELSE IF rk \notin DOMAIN reservoirs THEN "ReservoirNotFound"
  ELSE "none"

\* stores the consumer and mints contractedCapacity capacity tokens (WATC)
registerConsumer(c, tk, rk, contractedCapacity, blockRate) ==
  IF registerConsumerError(c, tk, rk) # "none" THEN UNCHANGED ledger
  ELSE /\ consumers' = consumers @@
            (c :> [assignedTariff |-> tk, assignedReservoir |-> rk,
                   contractedCapacity |-> contractedCapacity, blockRate |-> blockRate])
       /\ watc' = (c :> contractedCapacity) @@ watc
       /\ wtk' = (c :> 0) @@ wtk
       /\ wst' = (c :> 0) @@ wst
       /\ UNCHANGED <<tariffs, reservoirs, wstc>>

\* variant: a decrease is never checked against the balance held
updateConsumerErrorUnchecked(c, contractedCapacity) ==
  IF c \notin DOMAIN consumers THEN "NotFound" ELSE "none"

updateConsumerError(c, contractedCapacity) ==
  IF c \notin DOMAIN consumers THEN "NotFound"
  ELSE IF /\ contractedCapacity < consumers[c].contractedCapacity
          /\ consumers[c].contractedCapacity - contractedCapacity > watc[c]
       THEN "InsufficientBalance"
  ELSE "none"

\* mints the increase, or burns the decrease, of the contracted capacity
updateConsumer(c, tk, rk, contractedCapacity, blockRate) ==
  IF updateConsumerError(c, contractedCapacity) # "none" THEN UNCHANGED ledger
  ELSE /\ consumers' = [consumers EXCEPT ![c].contractedCapacity = contractedCapacity,
                                         ![c].blockRate = blockRate]
       /\ watc' = [watc EXCEPT ![c] = @ + contractedCapacity
                                        - consumers[c].contractedCapacity]
       /\ UNCHANGED <<tariffs, reservoirs, wtk, wst, wstc>>

\* variant: the references passed are not compared with the assigned ones
useWaterErrorUnchecked(c, tk, rk, amount) ==
  IF c \notin DOMAIN consumers \/ tk \notin DOMAIN tariffs \/ rk \notin DOMAIN reservoirs
    THEN "NotFound"
  ELSE IF amount <= 0 THEN "InvalidAmount"
  ELSE IF /\ amount > watc[c]
          /\ ExcessUndefined(tariffs[tk].tariffType, reservoirs[rk].currentLevel,
                             reservoirs[rk].capacity)
       THEN "ArithmeticOverflow"
  ELSE IF UsageOverflow(tariffs[tk].tariffType, amount, watc[c], tariffs[tk].waterRate,
                        consumers[c].blockRate, reservoirs[rk].currentLevel,
                        reservoirs[rk].capacity)
       THEN "ArithmeticOverflow"
  ELSE "none"

\* the references passed are validated against the ones the consumer is
\* assigned when the instruction runs
useWaterError(c, tk, rk, amount) ==
  IF c \notin DOMAIN consumers \/ tk \notin DOMAIN tariffs \/ rk \notin DOMAIN reservoirs
    THEN "NotFound"
  ELSE IF amount <= 0 THEN "InvalidAmount"
  ELSE IF tk # consumers[c].assignedTariff \/ rk # consumers[c].assignedReservoir
    THEN "Mismatch"
  ELSE IF /\ amount > watc[c]
          /\ ExcessUndefined(tariffs[tk].tariffType, reservoirs[rk].currentLevel,
                             reservoirs[rk].capacity)
       THEN "ArithmeticOverflow"
  ELSE IF UsageOverflow(tariffs[tk].tariffType, amount, watc[c], tariffs[tk].waterRate,
                        consumers[c].blockRate, reservoirs[rk].currentLevel,
                        reservoirs[rk].capacity)
       THEN "ArithmeticOverflow"
  ELSE "none"

\* mints the cost in usage tokens (WTK), burns the in-contract capacity tokens
useWater(c, tk, rk, amount) ==
  IF useWaterError(c, tk, rk, amount) # "none" THEN UNCHANGED ledger
  ELSE /\ wtk' = [wtk EXCEPT ![c] = @ + UsageCost(tariffs[tk].tariffType, amount, watc[c],
                                          tariffs[tk].waterRate, consumers[c].blockRate,
                                          reservoirs[rk].currentLevel,
                                          reservoirs[rk].capacity)]
       /\ watc' = [watc EXCEPT ![c] = @ - InContract(amount, watc[c])]
       /\ UNCHANGED <<tariffs, reservoirs, consumers, wst, wstc>>

disposeWasteError(c, tk, amount) ==
  IF c \notin DOMAIN consumers \/ tk \notin DOMAIN tariffs THEN "NotFound"
  ELSE IF amount <= 0 THEN "InvalidAmount"
  ELSE IF Overflows(amount, tariffs[tk].wasteRate) THEN "ArithmeticOverflow"
  ELSE "none"

\* mints the cost in waste tokens (WST)
disposeWaste(c, tk, amount) ==
  IF disposeWasteError(c, tk, amount) # "none" THEN UNCHANGED ledger
  ELSE /\ wst' = [wst EXCEPT ![c] = @ + WasteCost(amount, tariffs[tk].wasteRate)]
       /\ UNCHANGED <<tariffs, reservoirs, consumers, wtk, watc, wstc>>

payForWaterError(c, amount) ==
  IF c \notin DOMAIN consumers THEN "NotFound"
  ELSE IF amount > wtk[c] THEN "InsufficientBalance"
  ELSE "none"

\* burns amount usage tokens
payForWater(c, tk, rk, amount) ==
  IF payForWaterError(c, amount) # "none" THEN UNCHANGED ledger
  ELSE /\ wtk' = [wtk EXCEPT ![c] = @ - amount]
       /\ UNCHANGED <<tariffs, reservoirs, consumers, watc, wst, wstc>>

payForWasteError(c, amount) ==
  IF c \notin DOMAIN consumers THEN "NotFound"
  ELSE IF amount > wst[c] THEN "InsufficientBalance"
  ELSE "none"

\* burns amount waste tokens
payForWaste(c, tk, amount) ==
  IF payForWasteError(c, amount) # "none" THEN UNCHANGED ledger
  ELSE /\ wst' = [wst EXCEPT ![c] = @ - amount]
       /\ UNCHANGED <<tariffs, reservoirs, consumers, wtk, watc, wstc>>

(***************************************************************************)
(* REST handlers.  Each is one request, answered with an HTTP status; last *)
(* records the request and its answer (err: the error of the instruction   *)
(* the handler submitted, "none" when it submitted none or it succeeded).  *)
(***************************************************************************)
Respond(op, key, arg, status, err) ==
  last' = [op |-> op, key |-> key, arg |-> arg, status |-> status, err |-> err]

\* statuses of a handler whose instruction ended with err
Status(err, success) == IF err = "none" THEN success ELSE 500

\* variant: the two rates are passed to initializeTariff in the other order
PostTariffSwappedRates(k, water_rate, waste_rate, tariff_type) ==
  IF water_rate = NoVal \/ waste_rate = NoVal
    THEN Respond("postTariff", "-", NoVal, 400, "none") /\ UNCHANGED ledger
  ELSE LET chosenTariffType == IF tariff_type = NoType THEN "uniformIbt" ELSE tariff_type
       IN  IF chosenTariffType \notin TariffTypes
             THEN Respond("postTariff", "-", NoVal, 400, "none") /\ UNCHANGED ledger
           ELSE /\ k \notin DOMAIN tariffs
                /\ initializeTariff(k, waste_rate, water_rate, chosenTariffType)
                /\ Respond("postTariff", k, water_rate,
                           Status(initializeTariffError(k), 200), initializeTariffError(k))

\* POST /tariff
PostTariff(k, water_rate, waste_rate, tariff_type) ==
  IF water_rate = NoVal \/ waste_rate = NoVal
    THEN Respond("postTariff", "-", NoVal, 400, "none") /\ UNCHANGED ledger
  ELSE LET chosenTariffType == IF tariff_type = NoType THEN "uniformIbt" ELSE tariff_type
       IN  IF chosenTariffType \notin TariffTypes
             THEN Respond("postTariff", "-", NoVal, 400, "none") /\ UNCHANGED ledger
           ELSE /\ k \notin DOMAIN tariffs
                /\ initializeTariff(k, water_rate, waste_rate, chosenTariffType)
                /\ Respond("postTariff", k, water_rate,
                           Status(initializeTariffError(k), 200), initializeTariffError(k))

\* POST /reservoir
PostReservoir(k, current_level, capacity) ==
  IF current_level = NoVal \/ capacity = NoVal
    THEN Respond("postReservoir", "-", NoVal, 400, "none") /\ UNCHANGED ledger
  ELSE /\ k \notin DOMAIN reservoirs
       /\ initializeReservoir(k, current_level, capacity)
       /\ Respond("postReservoir", k, current_level,
                  Status(initializeReservoirError(k), 200), initializeReservoirError(k))

\* POST /consumer
PostConsumer(c, tariff_key, reservoir_key, contracted_capacity, block_rate) ==
  IF contracted_capacity = NoVal \/ block_rate = NoVal
    THEN Respond("postConsumer", "-", NoVal, 400, "none") /\ UNCHANGED ledger
  ELSE IF tariff_key \notin DOMAIN tariffs
    THEN Respond("postConsumer", "-", NoVal, 404, "none") /\ UNCHANGED ledger
  ELSE IF reservoir_key \notin DOMAIN reservoirs
    THEN Respond("postConsumer", "-", NoVal, 404, "none") /\ UNCHANGED ledger
  ELSE /\ c \notin DOMAIN consumers
       /\ registerConsumer(c, tariff_key, reservoir_key, contracted_capacity, block_rate)
       /\ Respond("postConsumer", c, contracted_capacity,
                  Status(registerConsumerError(c, tariff_key, reservoir_key), 201),
                  registerConsumerError(c, tariff_key, reservoir_key))

\* variant: the handler resubmits the stored capacity, whatever the request says
PutConsumerStale(pubkey, contracted_capacity, block_rate) ==
  IF contracted_capacity = NoVal /\ block_rate = NoVal
    THEN Respond("putConsumer", pubkey, NoVal, 400, "none") /\ UNCHANGED ledger
  ELSE IF pubkey \notin DOMAIN consumers
    THEN Respond("putConsumer", pubkey, NoVal, 500, "none") /\ UNCHANGED ledger
  ELSE LET consumerAccount == consumers[pubkey]
           updatedBlockRate ==
             IF block_rate # NoVal THEN block_rate ELSE consumerAccount.blockRate
           err == updateConsumerError(pubkey, consumerAccount.contractedCapacity)
       IN  /\ updateConsumer(pubkey, consumerAccount.assignedTariff,
                             consumerAccount.assignedReservoir,
                             consumerAccount.contractedCapacity, updatedBlockRate)
           /\ Respond("putConsumer", pubkey, contracted_capacity, Status(err, 200), err)

\* PUT /consumer/:pubkey
PutConsumer(pubkey, contracted_capacity, block_rate) ==
  IF contracted_capacity = NoVal /\ block_rate = NoVal
    THEN Respond("putConsumer", pubkey, NoVal, 400, "none") /\ UNCHANGED ledger
  ELSE IF pubkey \notin DOMAIN consumers
    THEN Respond("putConsumer", pubkey, NoVal, 500, "none") /\ UNCHANGED ledger
  ELSE LET consumerAccount == consumers[pubkey]
           updatedContractedCapacity ==
             IF contracted_capacity # NoVal THEN contracted_capacity
             ELSE consumerAccount.contractedCapacity
           updatedBlockRate ==
             IF block_rate # NoVal THEN block_rate ELSE consumerAccount.blockRate
           err == updateConsumerError(pubkey, updatedContractedCapacity)
       IN  /\ updateConsumer(pubkey, consumerAccount.assignedTariff,
                             consumerAccount.assignedReservoir,
                             updatedContractedCapacity, updatedBlockRate)
           /\ Respond("putConsumer", pubkey, contracted_capacity, Status(err, 200), err)

\* variant: the amount is submitted as it came, absent or 0 included
WaterChargeUnvalidated(pubkey, amount) ==
  IF pubkey \notin DOMAIN consumers
    THEN Respond("waterCharge", pubkey, NoVal, 500, "none") /\ UNCHANGED ledger
  ELSE LET consumerAccount == consumers[pubkey]
           submitted == IF amount = NoVal THEN 0 ELSE amount
           err == useWaterError(pubkey, consumerAccount.assignedTariff,
                                consumerAccount.assignedReservoir, submitted)
       IN  /\ useWater(pubkey, consumerAccount.assignedTariff,
                       consumerAccount.assignedReservoir, submitted)
           /\ Respond("waterCharge", pubkey, amount, Status(err, 200), err)

\* POST /consumer/:pubkey/water/charge
WaterCharge(pubkey, amount) ==
  IF amount = NoVal \/ amount = 0
    THEN Respond("waterCharge", pubkey, NoVal, 400, "none") /\ UNCHANGED ledger
  ELSE IF pubkey \notin DOMAIN consumers
    THEN Respond("waterCharge", pubkey, NoVal, 500, "none") /\ UNCHANGED ledger
  ELSE LET consumerAccount == consumers[pubkey]
           err == useWaterError(pubkey, consumerAccount.assignedTariff,
                                consumerAccount.assignedReservoir, amount)
       IN  /\ useWater(pubkey, consumerAccount.assignedTariff,
                       consumerAccount.assignedReservoir, amount)
           /\ Respond("waterCharge", pubkey, amount, Status(err, 200), err)

\* variant: the charge is priced with the waste rate copied at registration
WasteChargeSnapshot(pubkey, amount) ==
  IF amount = NoVal \/ amount = 0
    THEN Respond("wasteCharge", pubkey, NoVal, 400, "none") /\ UNCHANGED ledger
  ELSE IF pubkey \notin DOMAIN consumers
    THEN Respond("wasteCharge", pubkey, NoVal, 500, "none") /\ UNCHANGED ledger
  ELSE LET consumerAccount == consumers[pubkey]
           err == disposeWasteError(pubkey, consumerAccount.assignedTariff, amount)
       IN  /\ IF err # "none" THEN UNCHANGED ledger
              ELSE /\ wst' = [wst EXCEPT ![pubkey] = @ + WasteCost(amount, 1500)]
                   /\ UNCHANGED <<tariffs, reservoirs, consumers, wtk, watc, wstc>>
           /\ Respond("wasteCharge", pubkey, amount, Status(err, 200), err)

\* POST /consumer/:pubkey/waste/charge
WasteCharge(pubkey, amount) ==
  IF amount = NoVal \/ amount = 0
    THEN Respond("wasteCharge", pubkey, NoVal, 400, "none") /\ UNCHANGED ledger
  ELSE IF pubkey \notin DOMAIN consumers
    THEN Respond("wasteCharge", pubkey, NoVal, 500, "none") /\ UNCHANGED ledger
  ELSE LET consumerAccount == consumers[pubkey]
           err == disposeWasteError(pubkey, consumerAccount.assignedTariff, amount)
       IN  /\ disposeWaste(pubkey, consumerAccount.assignedTariff, amount)
           /\ Respond("wasteCharge", pubkey, amount, Status(err, 200), err)

\* POST /consumer/:pubkey/waste/pay
WastePay(pubkey, amount) ==
  IF amount = NoVal \/ amount = 0
    THEN Respond("wastePay", pubkey, NoVal, 400, "none") /\ UNCHANGED ledger
  ELSE IF pubkey \notin DOMAIN consumers
    THEN Respond("wastePay", pubkey, NoVal, 500, "none") /\ UNCHANGED ledger
  ELSE LET consumerAccount == consumers[pubkey]
           err == payForWasteError(pubkey, amount)
       IN  /\ payForWaste(pubkey, consumerAccount.assignedTariff, amount)
           /\ Respond("wastePay", pubkey, amount, Status(err, 200), err)

\* variant: the water payment burns waste tokens
WaterPayWasteTokens(pubkey, amount) ==
  IF amount = NoVal \/ amount = 0
    THEN Respond("waterPay", pubkey, NoVal, 400, "none") /\ UNCHANGED ledger
  ELSE IF pubkey \notin DOMAIN consumers
    THEN Respond("waterPay", pubkey, NoVal, 500, "none") /\ UNCHANGED ledger
  ELSE LET consumerAccount == consumers[pubkey]
           err == payForWasteError(pubkey, amount)
       IN  /\ payForWaste(pubkey, consumerAccount.assignedTariff, amount)
           /\ Respond("waterPay", pubkey, amount, Status(err, 200), err)

\* POST /consumer/:pubkey/water/pay
WaterPay(pubkey, amount) ==
  IF amount = NoVal \/ amount = 0
    THEN Respond("waterPay", pubkey, NoVal, 400, "none") /\ UNCHANGED ledger
  ELSE IF pubkey \notin DOMAIN consumers
    THEN Respond("waterPay", pubkey, NoVal, 500, "none") /\ UNCHANGED ledger
  ELSE LET consumerAccount == consumers[pubkey]
           err == payForWaterError(pubkey, amount)
       IN  /\ payForWater(pubkey, consumerAccount.assignedTariff,
                          consumerAccount.assignedReservoir, amount)
           /\ Respond("waterPay", pubkey, amount, Status(err, 200), err)

(***************************************************************************)
(* Administration: the instructions that change a tariff, a reservoir or   *)
(* the references of a consumer, and the handlers that submit them.        *)
(***************************************************************************)
updateTariffRatesError(k) == IF k \notin DOMAIN tariffs THEN "NotFound" ELSE "none"

\* the tariffs after updateTariffRates(k, waterRate, wasteRate): both rates are set
updateTariffRates(ts, k, waterRate, wasteRate) ==
  [ts EXCEPT ![k].waterRate = waterRate, ![k].wasteRate = wasteRate]

\* the tariffs after updateTariffType(k, type)
updateTariffType(ts, k, type) == [ts EXCEPT ![k].tariffType = type]

updateReservoirError(k) == IF k \notin DOMAIN reservoirs THEN "NotFound" ELSE "none"

updateReservoir(k, level, capacity) ==
  IF updateReservoirError(k) # "none" THEN UNCHANGED ledger
  ELSE /\ reservoirs' = [reservoirs EXCEPT ![k].currentLevel = level,
                                           ![k].capacity = capacity]
       /\ UNCHANGED <<tariffs, consumers, wtk, watc, wst, wstc>>

updateConsumerTariffError(c, old) ==
  IF c \notin DOMAIN consumers THEN "NotFound"
  ELSE IF old # consumers[c].assignedTariff THEN "Mismatch"
  ELSE "none"

\* swaps the tariff reference of the consumer
updateConsumerTariff(c, old, new) ==
  IF updateConsumerTariffError(c, old) # "none" THEN UNCHANGED ledger
  ELSE /\ consumers' = [consumers EXCEPT ![c].assignedTariff = new]
       /\ UNCHANGED <<tariffs, reservoirs, wtk, watc, wst, wstc>>

updateConsumerReservoirError(c, old) ==
  IF c \notin DOMAIN consumers THEN "NotFound"
  ELSE IF old # consumers[c].assignedReservoir THEN "Mismatch"
  ELSE "none"

\* swaps the reservoir reference of the consumer
updateConsumerReservoir(c, old, new) ==
  IF updateConsumerReservoirError(c, old) # "none" THEN UNCHANGED ledger
  ELSE /\ consumers' = [consumers EXCEPT ![c].assignedReservoir = new]
       /\ UNCHANGED <<tariffs, reservoirs, wtk, watc, wst, wstc>>

\* a request field that JavaScript takes as true: present and not 0
Truthy(v) == v # NoVal /\ v # 0

\* new anchor.BN(v): an absent value becomes 0
BN(v) == IF v = NoVal THEN 0 ELSE v

\* variant: seasonalIbt and seasonalDbt exchanged
convertStringToTariffTypeSwapped(tariff_type) ==
  CASE tariff_type = "uniformIbt" -> "uniformIbt"
    [] tariff_type = "seasonalIbt" -> "seasonalDbt"
    [] tariff_type = "seasonalDbt" -> "seasonalIbt"
    [] OTHER -> "invalid"

\* the variant object the program stores for a tariff_type string
convertStringToTariffType(tariff_type) ==
  CASE tariff_type = "uniformIbt" -> "uniformIbt"
    [] tariff_type = "seasonalIbt" -> "seasonalIbt"
    [] tariff_type = "seasonalDbt" -> "seasonalDbt"
    [] OTHER -> "invalid"

\* the fields of a tariff request, as last.arg records them
TariffFields(water_rate, waste_rate, tariff_type) ==
  [water_rate |-> water_rate, waste_rate |-> waste_rate, tariff_type |-> tariff_type]

\* the fields of a reservoir request, as last.arg records them
ReservoirFields(current_level, capacity) ==
  [current_level |-> current_level, capacity |-> capacity]

\* program.methods.initializeTariff called with a key of the caller's choice
InitializeTariffCall(k, waterRate, wasteRate, type) ==
  /\ initializeTariff(k, waterRate, wasteRate, type)
  /\ Respond("initializeTariff", k, TariffFields(waterRate, wasteRate, type),
             Status(initializeTariffError(k), 200), initializeTariffError(k))

\* PUT /tariff/:pubkey
PutTariff(pubkey, water_rate, waste_rate, tariff_type) ==
  LET arg == TariffFields(water_rate, waste_rate, tariff_type)
  IN  IF tariff_type # NoType /\ tariff_type \notin TariffTypes
        THEN Respond("putTariff", pubkey, arg, 400, "none") /\ UNCHANGED ledger
      ELSE IF ~(Truthy(water_rate) /\ Truthy(waste_rate)) /\ tariff_type = NoType
        THEN Respond("putTariff", pubkey, arg, 400, "none") /\ UNCHANGED ledger
      ELSE IF updateTariffRatesError(pubkey) # "none"
        THEN Respond("putTariff", pubkey, arg, 500, updateTariffRatesError(pubkey))
             /\ UNCHANGED ledger
      ELSE LET rated == IF Truthy(water_rate) \/ Truthy(waste_rate)
                          THEN updateTariffRates(tariffs, pubkey, BN(water_rate),
                                                 BN(waste_rate))
                          ELSE tariffs
               typed == IF tariff_type # NoType
                          THEN updateTariffType(rated, pubkey,
                                                convertStringToTariffType(tariff_type))
                          ELSE rated
           IN  /\ tariffs' = typed
               /\ UNCHANGED <<reservoirs, consumers, wtk, watc, wst, wstc>>
               /\ Respond("putTariff", pubkey, arg, 200, "none")

\* variant: a successful update also clears the usage tokens issued so far
PutReservoirReissue(pubkey, current_level, capacity) ==
  LET arg == ReservoirFields(current_level, capacity)
  IN  IF ~Truthy(current_level)
        THEN Respond("putReservoir", pubkey, arg, 400, "none") /\ UNCHANGED ledger
      ELSE IF pubkey \notin DOMAIN reservoirs
        THEN Respond("putReservoir", pubkey, arg, 500, "none") /\ UNCHANGED ledger
      ELSE LET chosenCapacity == IF Truthy(capacity) THEN capacity
                                 ELSE reservoirs[pubkey].capacity
           IN  /\ reservoirs' = [reservoirs EXCEPT ![pubkey].currentLevel = current_level,
                                                    ![pubkey].capacity = chosenCapacity]
               /\ wtk' = [c \in DOMAIN wtk |-> 0]
               /\ UNCHANGED <<tariffs, consumers, watc, wst, wstc>>
               /\ Respond("putReservoir", pubkey, arg, 200, "none")

\* PUT /reservoir/:pubkey
PutReservoir(pubkey, current_level, capacity) ==
  LET arg == ReservoirFields(current_level, capacity)
  IN  IF ~Truthy(current_level)
        THEN Respond("putReservoir", pubkey, arg, 400, "none") /\ UNCHANGED ledger
      ELSE IF ~Truthy(capacity) /\ pubkey \notin DOMAIN reservoirs
        THEN Respond("putReservoir", pubkey, arg, 500, "none") /\ UNCHANGED ledger
      ELSE LET chosenCapacity == IF Truthy(capacity) THEN capacity
                                 ELSE reservoirs[pubkey].capacity
               err == updateReservoirError(pubkey)
           IN  /\ updateReservoir(pubkey, current_level, chosenCapacity)
               /\ Respond("putReservoir", pubkey, arg, Status(err, 200), err)

\* PUT /consumer/:pubkey/tariff, from the consumer account fetched as old
SubmitConsumerTariff(pubkey, old, tariff_key) ==
  LET err == updateConsumerTariffError(pubkey, old)
  IN  /\ updateConsumerTariff(pubkey, old, tariff_key)
      /\ Respond("putConsumerTariff", pubkey, <<old, tariff_key>>, Status(err, 200), err)

\* variant: the request is answered 200 and no instruction is submitted
PutConsumerTariffUnsubmitted(pubkey, tariff_key) ==
  IF tariff_key = NoType
    THEN Respond("putConsumerTariff", pubkey, << >>, 400, "none") /\ UNCHANGED ledger
  ELSE IF pubkey \notin DOMAIN consumers
    THEN Respond("putConsumerTariff", pubkey, << >>, 500, "none") /\ UNCHANGED ledger
  ELSE /\ Respond("putConsumerTariff", pubkey,
                  <<consumers[pubkey].assignedTariff, tariff_key>>, 200, "none")
       /\ UNCHANGED ledger

\* PUT /consumer/:pubkey/tariff, answered before any other request is served
PutConsumerTariff(pubkey, tariff_key) ==
  IF tariff_key = NoType
    THEN Respond("putConsumerTariff", pubkey, << >>, 400, "none") /\ UNCHANGED ledger
  ELSE IF pubkey \notin DOMAIN consumers
    THEN Respond("putConsumerTariff", pubkey, << >>, 500, "none") /\ UNCHANGED ledger
  ELSE SubmitConsumerTariff(pubkey, consumers[pubkey].assignedTariff, tariff_key)

\* PUT /consumer/:pubkey/reservoir, from the consumer account fetched as old
SubmitConsumerReservoir(pubkey, old, reservoir_key) ==
  LET err == updateConsumerReservoirError(pubkey, old)
  IN  /\ updateConsumerReservoir(pubkey, old, reservoir_key)
      /\ Respond("putConsumerReservoir", pubkey, <<old, reservoir_key>>,
                 Status(err, 200), err)

\* PUT /consumer/:pubkey/reservoir, answered before any other request is served
PutConsumerReservoir(pubkey, reservoir_key) ==
  IF reservoir_key = NoType
    THEN Respond("putConsumerReservoir", pubkey, << >>, 400, "none") /\ UNCHANGED ledger
  ELSE IF pubkey \notin DOMAIN consumers
    THEN Respond("putConsumerReservoir", pubkey, << >>, 500, "none") /\ UNCHANGED ledger
  ELSE SubmitConsumerReservoir(pubkey, consumers[pubkey].assignedReservoir, reservoir_key)

(***************************************************************************)
(* The token directory (services/solana.ts, InitOrFetchTokens).  A server  *)
(* calls InitOrFetchTokens when its middleware module loads; each await of *)
(* the function is one step.  tokensAccount is the directory account,      *)
(* << >> while it does not exist, else <<wtk, watc, wst>>.                 *)
(***************************************************************************)
Servers == {"s1", "s2"}
MaxCalls == 2

\* createNewMint: a mint under a key never used before
createNewMint == Cardinality(mints) + 1

\* the initializeTokens instruction: creates the directory account once
initializeTokensError == IF tokensAccount # << >> THEN "AlreadyExists" ELSE "none"

\* variant: the fetch looks under another address and never finds the directory
FetchTokensNeverFound(p) ==
  /\ calls[p].pc \in {"idle", "returned", "failed"}
  /\ calls[p].n < MaxCalls
  /\ calls' = [calls EXCEPT ![p] = [pc |-> "mint", minted |-> << >>,
                                    result |-> @.result, n |-> @.n + 1]]
  /\ UNCHANGED <<tokensAccount, mints>>

\* program.account.tokens.fetch, and the return of the directory found
FetchTokens(p) ==
  /\ calls[p].pc \in {"idle", "returned", "failed"}
  /\ calls[p].n < MaxCalls
  /\ IF tokensAccount # << >>
       THEN calls' = [calls EXCEPT ![p] = [pc |-> "returned", minted |-> << >>,
                                           result |-> tokensAccount, n |-> @.n + 1]]
       ELSE calls' = [calls EXCEPT ![p] = [pc |-> "mint", minted |-> << >>,
                                           result |-> @.result, n |-> @.n + 1]]
  /\ UNCHANGED <<tokensAccount, mints>>

\* one of the three awaited createNewMint calls of the catch branch
CreateMint(p) ==
  /\ calls[p].pc = "mint"
  /\ Len(calls[p].minted) < 3
  /\ mints' = mints \cup {createNewMint}
  /\ calls' = [calls EXCEPT ![p].minted = Append(@, createNewMint)]
  /\ UNCHANGED tokensAccount

\* initializeTokens(...).rpc() and the return of the new mints; the call
\* rejects when the instruction fails
InitializeTokens(p) ==
  /\ calls[p].pc = "mint"
  /\ Len(calls[p].minted) = 3
  /\ IF initializeTokensError = "none"
       THEN /\ tokensAccount' = calls[p].minted
            /\ calls' = [calls EXCEPT ![p].pc = "returned", ![p].result = calls[p].minted]
       ELSE /\ tokensAccount' = tokensAccount
            /\ calls' = [calls EXCEPT ![p].pc = "failed", ![p].result = << >>]
  /\ UNCHANGED mints

\* the directory after the first server started and the second found it
TokensReady ==
  /\ tokensAccount = <<1, 2, 3>>
  /\ mints = {1, 2, 3}
  /\ calls = [p \in Servers |->
                IF p = "s1"
                  THEN [pc |-> "returned", minted |-> <<1, 2, 3>>,
                        result |-> <<1, 2, 3>>, n |-> 1]
                  ELSE [pc |-> "returned", minted |-> << >>,
                        result |-> <<1, 2, 3>>, n |-> 1]]
  /\ middleware = [p \in Servers |->
                     [tokens |-> <<1, 2, 3>>, tokensPromise |-> "resolved"]]

InitTokens ==
  /\ tariffs = << >>
  /\ reservoirs = << >>
  /\ consumers = << >>
  /\ wtk = << >>
  /\ watc = << >>
  /\ wst = << >>
  /\ wstc = << >>
  /\ last = [op |-> "init", key |-> "-", arg |-> NoVal, status |-> 0, err |-> "none"]
  /\ tokensAccount = << >>
  /\ mints = {}
  /\ calls = [p \in Servers |-> [pc |-> "idle", minted |-> << >>, result |-> << >>,
                                 n |-> 0]]
  /\ middleware = [p \in Servers |-> [tokens |-> << >>, tokensPromise |-> "pending"]]
  /\ pending = {}
  /\ headers = NoHeaders

NextTokens ==
  \/ \E p \in Servers : FetchTokens(p) /\ UNCHANGED <<ledger, last, pending, headers, middleware>>
  \/ \E p \in Servers : CreateMint(p) /\ UNCHANGED <<ledger, last, pending, headers, middleware>>
  \/ \E p \in Servers : InitializeTokens(p) /\ UNCHANGED <<ledger, last, pending, headers, middleware>>

SpecTokens == InitTokens /\ [][NextTokens]_vars

(***************************************************************************)
(* The service from an empty ledger                                        *)
(***************************************************************************)
Init ==
  /\ tariffs = << >>
  /\ reservoirs = << >>
  /\ consumers = << >>
  /\ wtk = << >>
  /\ watc = << >>
  /\ wst = << >>
  /\ wstc = << >>
  /\ last = [op |-> "init", key |-> "-", arg |-> NoVal, status |-> 0, err |-> "none"]
  /\ TokensReady
  /\ pending = {}
  /\ headers = NoHeaders

\* the usage and waste balances the model follows stay within the limits
WithinBalance(usageLimit, wasteLimit) ==
  \A c \in DOMAIN wtk' : wtk'[c] <= usageLimit /\ wst'[c] <= wasteLimit

Next ==
  \/ \E k \in TariffKeys, wr \in WaterRates \cup {NoVal}, ws \in WasteRates \cup {NoVal},
        ty \in TariffTypes \cup {NoType, "flat"} :
       PostTariff(k, wr, ws, ty) /\ UNCHANGED <<registry, pending, headers, middleware>>
  \/ \E k \in ReservoirKeys, lv \in ReservoirLevels \cup {NoVal},
        cp \in ReservoirCapacities \cup {NoVal} :
       PostReservoir(k, lv, cp) /\ UNCHANGED <<registry, pending, headers, middleware>>
  \/ \E c \in ConsumerKeys, tk \in TariffKeys, rk \in ReservoirKeys,
        cp \in (0..MaxCapacity) \cup {NoVal}, br \in BlockRates \cup {NoVal} :
       PostConsumer(c, tk, rk, cp, br) /\ UNCHANGED <<registry, pending, headers, middleware>>
  \/ \E c \in ConsumerKeys, cp \in (0..MaxCapacity) \cup {NoVal},
        br \in BlockRates \cup {NoVal} :
       PutConsumer(c, cp, br) /\ UNCHANGED <<registry, pending, headers, middleware>>
  \/ \E c \in ConsumerKeys, a \in (0..MaxAmount) \cup {NoVal} :
       WaterCharge(c, a) /\ WithinBalance(MaxBalance, MaxWaste) /\ UNCHANGED <<registry, pending, headers, middleware>>
  \/ \E c \in ConsumerKeys, a \in (0..MaxAmount) \cup {NoVal} :
       WasteCharge(c, a) /\ WithinBalance(MaxBalance, MaxWaste) /\ UNCHANGED <<registry, pending, headers, middleware>>
  \/ \E c \in ConsumerKeys, a \in (0..MaxAmount) \cup {NoVal} :
       WaterPay(c, a) /\ UNCHANGED <<registry, pending, headers, middleware>>
  \/ \E c \in ConsumerKeys, a \in (0..MaxAmount) \cup {NoVal} :
       WastePay(c, a) /\ UNCHANGED <<registry, pending, headers, middleware>>

Spec == Init /\ [][Next]_vars

(***************************************************************************)
(* The fixture of tests/tariffs.ts and tests/payments.ts: one tariff, one  *)
(* reservoir and one registered consumer holding its full capacity, then   *)
(* the charges and payments of the tests.                                  *)
(***************************************************************************)
InitTariffs ==
  \E ty \in TariffTypes :
    /\ tariffs = ("t1" :> [tariffKey |-> "t1", waterRate |-> 500, wasteRate |-> 200,
                           tariffType |-> ty])
    /\ reservoirs = ("r1" :> [reservoirKey |-> "r1", currentLevel |-> 950000,
                              capacity |-> 1000000])
    /\ consumers = ("c1" :> [assignedTariff |-> "t1", assignedReservoir |-> "r1",
                             contractedCapacity |-> 100000, blockRate |-> 800])
    /\ watc = ("c1" :> 100000)
    /\ wtk = ("c1" :> 0)
    /\ wst = ("c1" :> 0)
    /\ wstc = << >>
    /\ last = [op |-> "postConsumer", key |-> "c1", arg |-> 100000, status |-> 201,
               err |-> "none"]
    /\ TokensReady
    /\ pending = {}
    /\ headers = NoHeaders

NextTariffs ==
  \/ \E c \in ConsumerKeys, a \in TestWaterAmounts :
       WaterCharge(c, a) /\ WithinBalance(MaxTestBalance, MaxTestWaste) /\ UNCHANGED <<registry, pending, headers, middleware>>
  \/ \E c \in ConsumerKeys, a \in TestWasteAmounts :
       WasteCharge(c, a) /\ WithinBalance(MaxTestBalance, MaxTestWaste) /\ UNCHANGED <<registry, pending, headers, middleware>>
  \/ \E c \in ConsumerKeys, a \in TestPayAmounts :
       WaterPay(c, a) /\ UNCHANGED <<registry, pending, headers, middleware>>
  \/ \E c \in ConsumerKeys, a \in TestPayAmounts :
       WastePay(c, a) /\ UNCHANGED <<registry, pending, headers, middleware>>

SpecTariffs == InitTariffs /\ [][NextTariffs]_vars

(***************************************************************************)
(* Administration of a running service: tariff t1, reservoir r1 and the    *)
(* consumer c1 exist; a second tariff and reservoir are created, records   *)
(* are updated, the consumer is reassigned and keeps drawing and disposing.*)
(***************************************************************************)
AdminTariffKeys == {"t1", "t2"}
AdminReservoirKeys == {"r1", "r2"}
\* the records the update requests address, and a key nothing is stored under
UpdatedTariffKeys == {"t1"}
UpdatedReservoirKeys == {"r1"}
UnknownKeys == {"x"}
MaxAdminBalance == 2
MaxAdminWaste == 2

InitAdmin ==
  /\ tariffs = ("t1" :> [tariffKey |-> "t1", waterRate |-> 500, wasteRate |-> 1500,
                         tariffType |-> "uniformIbt"])
  /\ reservoirs = ("r1" :> [reservoirKey |-> "r1", currentLevel |-> 0, capacity |-> 1000])
  /\ consumers = ("c1" :> [assignedTariff |-> "t1", assignedReservoir |-> "r1",
                           contractedCapacity |-> 1, blockRate |-> 1500])
  /\ watc = ("c1" :> 1)
  /\ wtk = ("c1" :> 0)
  /\ wst = ("c1" :> 0)
  /\ wstc = << >>
  /\ last = [op |-> "postConsumer", key |-> "c1", arg |-> 1, status |-> 201, err |-> "none"]
  /\ TokensReady
  /\ pending = {}
  /\ headers = NoHeaders

NextAdmin ==
  \/ \E k \in AdminTariffKeys, ty \in {NoType, "seasonalIbt"} :
       PostTariff(k, 1500, 500, ty) /\ UNCHANGED <<registry, pending, headers, middleware>>
  \/ \E k \in AdminTariffKeys :
       InitializeTariffCall(k, 1500, 500, "seasonalIbt") /\ UNCHANGED <<registry, pending, headers, middleware>>
  \/ \E k \in UpdatedTariffKeys, wr \in {NoVal, 0, 1500}, ws \in {NoVal, 500},
        ty \in {NoType, "seasonalIbt"} :
       PutTariff(k, wr, ws, ty) /\ UNCHANGED <<registry, pending, headers, middleware>>
  \/ \E k \in UnknownKeys, ty \in {NoType, "flat"} :
       PutTariff(k, 1500, 500, ty) /\ UNCHANGED <<registry, pending, headers, middleware>>
  \/ \E k \in AdminReservoirKeys :
       PostReservoir(k, 1000, 1000) /\ UNCHANGED <<registry, pending, headers, middleware>>
  \/ \E k \in UpdatedReservoirKeys, lv \in {NoVal, 0, 1500}, cp \in {NoVal, 2000} :
       PutReservoir(k, lv, cp) /\ UNCHANGED <<registry, pending, headers, middleware>>
  \/ \E k \in UnknownKeys, cp \in {NoVal, 2000} :
       PutReservoir(k, 1500, cp) /\ UNCHANGED <<registry, pending, headers, middleware>>
  \/ \E c \in ConsumerKeys, tk \in AdminTariffKeys \cup {NoType} :
       PutConsumerTariff(c, tk) /\ UNCHANGED <<registry, pending, headers, middleware>>
  \/ \E c \in ConsumerKeys, rk \in AdminReservoirKeys \cup {NoType} :
       PutConsumerReservoir(c, rk) /\ UNCHANGED <<registry, pending, headers, middleware>>
  \/ \E c \in ConsumerKeys :
       WaterCharge(c, 1) /\ WithinBalance(MaxAdminBalance, MaxAdminWaste)
         /\ UNCHANGED <<registry, pending, headers, middleware>>
  \/ \E c \in ConsumerKeys :
       WasteCharge(c, 1) /\ WithinBalance(MaxAdminBalance, MaxAdminWaste)
         /\ UNCHANGED <<registry, pending, headers, middleware>>

SpecAdmin == InitAdmin /\ [][NextAdmin]_vars

(***************************************************************************)
(* Reassignment requests served concurrently.  The handler awaits the      *)
(* fetch of the consumer account and then the instruction; other requests  *)
(* are served in between.  pending holds every request from its fetch on,  *)
(* with its outcome once the instruction was submitted.                    *)
(***************************************************************************)
ReassignTariffKeys == {"t1", "t2", "t3"}
ReassignReservoirKeys == {"r1", "r2", "r3"}
MaxRequests == 3

Request(kind, c, old, new) ==
  [kind |-> kind, c |-> c, old |-> old, new |-> new, outcome |-> "inflight"]

Outcome(err) == IF err = "none" THEN "ok" ELSE err

\* PUT /consumer/:pubkey/tariff up to the fetched consumer account
PutConsumerTariffFetch(pubkey, tariff_key) ==
  IF tariff_key = NoType
    THEN Respond("putConsumerTariff", pubkey, << >>, 400, "none")
         /\ UNCHANGED <<ledger, pending>>
  ELSE IF pubkey \notin DOMAIN consumers
    THEN Respond("putConsumerTariff", pubkey, << >>, 500, "none")
         /\ UNCHANGED <<ledger, pending>>
  ELSE /\ Cardinality(pending) < MaxRequests
       /\ pending' = pending \cup
            {Request("tariff", pubkey, consumers[pubkey].assignedTariff, tariff_key)}
       /\ UNCHANGED <<ledger, last>>

\* variant: the instruction is submitted with the reference stored now
PutConsumerTariffSubmitFresh(req) ==
  /\ req.kind = "tariff" /\ req.outcome = "inflight"
  /\ updateConsumerTariff(req.c, consumers[req.c].assignedTariff, req.new)
  /\ Respond("putConsumerTariff", req.c, <<req.old, req.new>>, 200, "none")
  /\ pending' = (pending \ {req}) \cup {[req EXCEPT !.outcome = "ok"]}

\* PUT /consumer/:pubkey/tariff from the updateConsumerTariff instruction on
PutConsumerTariffSubmit(req) ==
  /\ req.kind = "tariff" /\ req.outcome = "inflight"
  /\ SubmitConsumerTariff(req.c, req.old, req.new)
  /\ pending' = (pending \ {req}) \cup
       {[req EXCEPT !.outcome = Outcome(updateConsumerTariffError(req.c, req.old))]}

\* PUT /consumer/:pubkey/reservoir up to the fetched consumer account
PutConsumerReservoirFetch(pubkey, reservoir_key) ==
  IF reservoir_key = NoType
    THEN Respond("putConsumerReservoir", pubkey, << >>, 400, "none")
         /\ UNCHANGED <<ledger, pending>>
  ELSE IF pubkey \notin DOMAIN consumers
    THEN Respond("putConsumerReservoir", pubkey, << >>, 500, "none")
         /\ UNCHANGED <<ledger, pending>>
  ELSE /\ Cardinality(pending) < MaxRequests
       /\ pending' = pending \cup
            {Request("reservoir", pubkey, consumers[pubkey].assignedReservoir,
                     reservoir_key)}
       /\ UNCHANGED <<ledger, last>>

\* PUT /consumer/:pubkey/reservoir from the updateConsumerReservoir instruction on
PutConsumerReservoirSubmit(req) ==
  /\ req.kind = "reservoir" /\ req.outcome = "inflight"
  /\ SubmitConsumerReservoir(req.c, req.old, req.new)
  /\ pending' = (pending \ {req}) \cup
       {[req EXCEPT !.outcome = Outcome(updateConsumerReservoirError(req.c, req.old))]}

InitReassign ==
  /\ tariffs = [k \in ReassignTariffKeys |->
                  [tariffKey |-> k, waterRate |-> 500, wasteRate |-> 1500,
                   tariffType |-> "uniformIbt"]]
  /\ reservoirs = [k \in ReassignReservoirKeys |->
                     [reservoirKey |-> k, currentLevel |-> 0, capacity |-> 1000]]
  /\ consumers = ("c1" :> [assignedTariff |-> "t1", assignedReservoir |-> "r1",
                           contractedCapacity |-> 1, blockRate |-> 1500])
  /\ watc = ("c1" :> 1)
  /\ wtk = ("c1" :> 0)
  /\ wst = ("c1" :> 0)
  /\ wstc = << >>
  /\ last = [op |-> "postConsumer", key |-> "c1", arg |-> 1, status |-> 201, err |-> "none"]
  /\ TokensReady
  /\ pending = {}
  /\ headers = NoHeaders

NextReassign ==
  \/ \E c \in ConsumerKeys, tk \in ReassignTariffKeys \cup {NoType} :
       PutConsumerTariffFetch(c, tk) /\ UNCHANGED <<registry, headers, middleware>>
  \/ \E req \in pending :
       PutConsumerTariffSubmit(req) /\ UNCHANGED <<registry, headers, middleware>>
  \/ \E c \in ConsumerKeys, rk \in ReassignReservoirKeys \cup {NoType} :
       PutConsumerReservoirFetch(c, rk) /\ UNCHANGED <<registry, headers, middleware>>
  \/ \E req \in pending :
       PutConsumerReservoirSubmit(req) /\ UNCHANGED <<registry, headers, middleware>>

SpecReassign == InitReassign /\ [][NextReassign]_vars

(***************************************************************************)
(* The instructions called directly, as the tests call program.methods,    *)
(* with ids that resolve and ids that do not, and amounts including 0.     *)
(* No consumer is registered at first; x is the id of no record.           *)
(***************************************************************************)
CallConsumerKeys == {"c1"}
CallTariffKeys == {"t1", "x"}
CallReservoirKeys == {"r1", "x"}
CallAmounts == {0, 1, 2}
CallLevels == {500, 1500}
MaxCallBalance == 3
MaxCallWaste == 3

\* the arguments of an instruction, as last.arg records them
CallArgs(tk, rk, n) == [tariff |-> tk, reservoir |-> rk, n |-> n]

\* variant: ids that do not resolve are replaced by t1 and r1
RegisterConsumerCallFallback(c, tk, rk, contractedCapacity, blockRate) ==
  LET tariff == IF tk \in DOMAIN tariffs THEN tk ELSE "t1"
      reservoir == IF rk \in DOMAIN reservoirs THEN rk ELSE "r1"
  IN  /\ registerConsumer(c, tariff, reservoir, contractedCapacity, blockRate)
      /\ Respond("registerConsumer", c, CallArgs(tk, rk, contractedCapacity),
                 Status(registerConsumerError(c, tariff, reservoir), 200),
                 registerConsumerError(c, tariff, reservoir))

\* variant: registering an id again stores the new record and mints again
RegisterConsumerCallAgain(c, tk, rk, contractedCapacity, blockRate) ==
  IF c \in DOMAIN consumers /\ tk \in DOMAIN tariffs /\ rk \in DOMAIN reservoirs
    THEN /\ consumers' = [consumers EXCEPT ![c] =
                            [assignedTariff |-> tk, assignedReservoir |-> rk,
                             contractedCapacity |-> contractedCapacity,
                             blockRate |-> blockRate]]
         /\ watc' = [watc EXCEPT ![c] = @ + contractedCapacity]
         /\ UNCHANGED <<tariffs, reservoirs, wtk, wst, wstc>>
         /\ Respond("registerConsumer", c, CallArgs(tk, rk, contractedCapacity), 200,
                    "none")
    ELSE /\ registerConsumer(c, tk, rk, contractedCapacity, blockRate)
         /\ Respond("registerConsumer", c, CallArgs(tk, rk, contractedCapacity),
                    Status(registerConsumerError(c, tk, rk), 200),
                    registerConsumerError(c, tk, rk))

RegisterConsumerCall(c, tk, rk, contractedCapacity, blockRate) ==
  /\ registerConsumer(c, tk, rk, contractedCapacity, blockRate)
  /\ Respond("registerConsumer", c, CallArgs(tk, rk, contractedCapacity),
             Status(registerConsumerError(c, tk, rk), 200),
             registerConsumerError(c, tk, rk))

UpdateConsumerCall(c, tk, rk, contractedCapacity, blockRate) ==
  /\ updateConsumer(c, tk, rk, contractedCapacity, blockRate)
  /\ Respond("updateConsumer", c, CallArgs(tk, rk, contractedCapacity),
             Status(updateConsumerError(c, contractedCapacity), 200),
             updateConsumerError(c, contractedCapacity))

UpdateConsumerTariffCall(c, old, new) ==
  /\ updateConsumerTariff(c, old, new)
  /\ Respond("updateConsumerTariff", c, CallArgs(old, new, 0),
             Status(updateConsumerTariffError(c, old), 200),
             updateConsumerTariffError(c, old))

UpdateConsumerReservoirCall(c, old, new) ==
  /\ updateConsumerReservoir(c, old, new)
  /\ Respond("updateConsumerReservoir", c, CallArgs(old, new, 0),
             Status(updateConsumerReservoirError(c, old), 200),
             updateConsumerReservoirError(c, old))

\* variant: the usage tokens are minted, the capacity tokens are not burned
UseWaterCallMintOnly(c, tk, rk, amount) ==
  LET err == useWaterError(c, tk, rk, amount)
  IN  /\ IF err # "none" THEN UNCHANGED ledger
         ELSE /\ wtk' = [wtk EXCEPT ![c] = @ + UsageCost(tariffs[tk].tariffType, amount,
                                                 watc[c], tariffs[tk].waterRate,
                                                 consumers[c].blockRate,
                                                 reservoirs[rk].currentLevel,
                                                 reservoirs[rk].capacity)]
              /\ UNCHANGED <<tariffs, reservoirs, consumers, watc, wst, wstc>>
      /\ Respond("useWater", c, CallArgs(tk, rk, amount), Status(err, 200), err)

UseWaterCall(c, tk, rk, amount) ==
  /\ useWater(c, tk, rk, amount)
  /\ Respond("useWater", c, CallArgs(tk, rk, amount),
             Status(useWaterError(c, tk, rk, amount), 200),
             useWaterError(c, tk, rk, amount))

\* variant: the cost is minted to every registered consumer
DisposeWasteCallShared(c, tk, amount) ==
  /\ IF disposeWasteError(c, tk, amount) # "none" THEN UNCHANGED ledger
     ELSE /\ wst' = [k \in DOMAIN wst |->
                       wst[k] + WasteCost(amount, tariffs[tk].wasteRate)]
          /\ UNCHANGED <<tariffs, reservoirs, consumers, wtk, watc, wstc>>
  /\ Respond("disposeWaste", c, CallArgs(tk, "-", amount),
             Status(disposeWasteError(c, tk, amount), 200),
             disposeWasteError(c, tk, amount))

DisposeWasteCall(c, tk, amount) ==
  /\ disposeWaste(c, tk, amount)
  /\ Respond("disposeWaste", c, CallArgs(tk, "-", amount),
             Status(disposeWasteError(c, tk, amount), 200),
             disposeWasteError(c, tk, amount))

\* variant: a payment gives back as many capacity tokens as it burns usage tokens
PayForWaterCallRestoring(c, tk, rk, amount) ==
  /\ IF payForWaterError(c, amount) # "none" THEN UNCHANGED ledger
     ELSE /\ wtk' = [wtk EXCEPT ![c] = @ - amount]
          /\ watc' = [watc EXCEPT ![c] = @ + amount]
          /\ UNCHANGED <<tariffs, reservoirs, consumers, wst, wstc>>
  /\ Respond("payForWater", c, CallArgs(tk, rk, amount),
             Status(payForWaterError(c, amount), 200), payForWaterError(c, amount))

PayForWaterCall(c, tk, rk, amount) ==
  /\ payForWater(c, tk, rk, amount)
  /\ Respond("payForWater", c, CallArgs(tk, rk, amount),
             Status(payForWaterError(c, amount), 200), payForWaterError(c, amount))

PayForWasteCall(c, tk, amount) ==
  /\ payForWaste(c, tk, amount)
  /\ Respond("payForWaste", c, CallArgs(tk, "-", amount),
             Status(payForWasteError(c, amount), 200), payForWasteError(c, amount))

InitCalls ==
  \E ty \in TariffTypes, lv \in CallLevels :
    /\ tariffs = ("t1" :> [tariffKey |-> "t1", waterRate |-> 500, wasteRate |-> 1500,
                           tariffType |-> ty])
    /\ reservoirs = ("r1" :> [reservoirKey |-> "r1", currentLevel |-> lv,
                              capacity |-> 1000])
    /\ consumers = << >>
    /\ watc = << >>
    /\ wtk = << >>
    /\ wst = << >>
    /\ wstc = << >>
    /\ last = [op |-> "postReservoir", key |-> "r1", arg |-> lv, status |-> 200,
               err |-> "none"]
    /\ TokensReady
    /\ pending = {}
    /\ headers = NoHeaders

NextCalls ==
  \/ \E c \in CallConsumerKeys, tk \in CallTariffKeys, rk \in CallReservoirKeys :
       RegisterConsumerCall(c, tk, rk, 1, 1500) /\ UNCHANGED <<registry, pending, headers, middleware>>
  \/ \E c \in CallConsumerKeys, cp \in {0, 2} :
       UpdateConsumerCall(c, "t1", "r1", cp, 1500) /\ UNCHANGED <<registry, pending, headers, middleware>>
  \/ \E c \in CallConsumerKeys, new \in CallTariffKeys :
       UpdateConsumerTariffCall(c, "t1", new) /\ UNCHANGED <<registry, pending, headers, middleware>>
  \/ \E c \in CallConsumerKeys, new \in CallReservoirKeys :
       UpdateConsumerReservoirCall(c, "r1", new) /\ UNCHANGED <<registry, pending, headers, middleware>>
  \/ \E c \in CallConsumerKeys, tk \in CallTariffKeys, a \in CallAmounts :
       UseWaterCall(c, tk, "r1", a) /\ WithinBalance(MaxCallBalance, MaxCallWaste)
       /\ UNCHANGED <<registry, pending, headers, middleware>>
  \/ \E c \in CallConsumerKeys, tk \in CallTariffKeys, a \in CallAmounts :
       DisposeWasteCall(c, tk, a) /\ WithinBalance(MaxCallBalance, MaxCallWaste)
       /\ UNCHANGED <<registry, pending, headers, middleware>>
  \/ \E c \in CallConsumerKeys, a \in CallAmounts :
       PayForWaterCall(c, "t1", "r1", a) /\ UNCHANGED <<registry, pending, headers, middleware>>
  \/ \E c \in CallConsumerKeys, a \in CallAmounts :
       PayForWasteCall(c, "t1", a) /\ UNCHANGED <<registry, pending, headers, middleware>>
  \/ \E c \in CallConsumerKeys, tk \in CallTariffKeys, rk \in CallReservoirKeys,
        cp \in {1, NoVal} :
       PostConsumer(c, tk, rk, cp, 1500) /\ UNCHANGED <<registry, pending, headers, middleware>>
  \/ \E c \in CallConsumerKeys, a \in {NoVal, 0, 1} :
       WaterCharge(c, a) /\ WithinBalance(MaxCallBalance, MaxCallWaste)
       /\ UNCHANGED <<registry, pending, headers, middleware>>
  \/ \E c \in CallConsumerKeys, a \in {NoVal, 0, 1} :
       WasteCharge(c, a) /\ WithinBalance(MaxCallBalance, MaxCallWaste)
       /\ UNCHANGED <<registry, pending, headers, middleware>>

SpecCalls == InitCalls /\ [][NextCalls]_vars

(***************************************************************************)
(* The limits of the arithmetic: the fixture of tests/tariffs.ts with the  *)
(* reservoir at, above and far above its capacity, a capacity of 0, and    *)
(* amounts, levels and capacities whose products are not representable.    *)
(***************************************************************************)
LimitLevels == {0, 500, 1000, 2500, 3000000}
LimitCapacities == {0, 1000, 3000000}
LimitAmounts == {0, 1, 2, 3000000}
MaxLimitBalance == 6
MaxLimitWaste == 4

\* the balances are within the limits the model follows
BelowLimit(usageLimit, wasteLimit) ==
  \A c \in DOMAIN wtk : wtk[c] <= usageLimit /\ wst[c] <= wasteLimit

InitLimits ==
  \E ty \in TariffTypes, lv \in LimitLevels, cp \in LimitCapacities :
    /\ tariffs = ("t1" :> [tariffKey |-> "t1", waterRate |-> 500, wasteRate |-> 1500,
                           tariffType |-> ty])
    /\ reservoirs = ("r1" :> [reservoirKey |-> "r1", currentLevel |-> lv,
                              capacity |-> cp])
    /\ consumers = ("c1" :> [assignedTariff |-> "t1", assignedReservoir |-> "r1",
                             contractedCapacity |-> 1, blockRate |-> 1500])
    /\ watc = ("c1" :> 1)
    /\ wtk = ("c1" :> 0)
    /\ wst = ("c1" :> 0)
    /\ wstc = << >>
    /\ last = [op |-> "registerConsumer", key |-> "c1", arg |-> CallArgs("t1", "r1", 1),
               status |-> 200, err |-> "none"]
    /\ TokensReady
    /\ pending = {}
    /\ headers = NoHeaders

NextLimits ==
  \/ \E c \in CallConsumerKeys, a \in LimitAmounts :
       /\ BelowLimit(MaxLimitBalance, MaxLimitWaste)
       /\ UseWaterCall(c, "t1", "r1", a)
       /\ UNCHANGED <<registry, pending, headers, middleware>>
  \/ \E c \in CallConsumerKeys, a \in LimitAmounts :
       /\ BelowLimit(MaxLimitBalance, MaxLimitWaste)
       /\ DisposeWasteCall(c, "t1", a)
       /\ UNCHANGED <<registry, pending, headers, middleware>>
  \/ \E c \in CallConsumerKeys, a \in {1, 2} :
       PayForWaterCall(c, "t1", "r1", a) /\ UNCHANGED <<registry, pending, headers, middleware>>
  \/ \E c \in CallConsumerKeys, a \in {1, 2} :
       PayForWasteCall(c, "t1", a) /\ UNCHANGED <<registry, pending, headers, middleware>>

SpecLimits == InitLimits /\ [][NextLimits]_vars

(***************************************************************************)
(* The extended program of tests/consumer.ts ("consumer (extended)"): a    *)
(* consumer is registered and updated with a contracted capacity and a     *)
(* contracted waste capacity, and holds both as capacity tokens (WATC) and *)
(* waste-capacity tokens (WSTC).                                           *)
(***************************************************************************)
MaxExtendedCapacity == 2
ExtendedConsumerKeys == {"c1", "c2"}

ExtendedArgs(tk, rk, n, w) == [tariff |-> tk, reservoir |-> rk, n |-> n, waste |-> w]

\* stores the consumer, mints contractedCapacity capacity tokens (WATC) and
\* contractedWasteCapacity waste-capacity tokens (WSTC)
registerConsumerExtended(c, tk, rk, contractedCapacity, contractedWasteCapacity) ==
  IF registerConsumerError(c, tk, rk) # "none" THEN UNCHANGED ledger
  ELSE /\ consumers' = consumers @@
            (c :> [assignedTariff |-> tk, assignedReservoir |-> rk,
                   contractedCapacity |-> contractedCapacity,
                   contractedWasteCapacity |-> contractedWasteCapacity])
       /\ watc' = (c :> contractedCapacity) @@ watc
       /\ wstc' = (c :> contractedWasteCapacity) @@ wstc
       /\ wtk' = (c :> 0) @@ wtk
       /\ wst' = (c :> 0) @@ wst
       /\ UNCHANGED <<tariffs, reservoirs>>

updateConsumerExtendedError(c, contractedCapacity, contractedWasteCapacity) ==
  IF c \notin DOMAIN consumers THEN "NotFound"
  ELSE IF \/ consumers[c].contractedCapacity - contractedCapacity > watc[c]
          \/ consumers[c].contractedWasteCapacity - contractedWasteCapacity > wstc[c]
       THEN "InsufficientBalance"
  ELSE "none"

\* mints the increase, or burns the decrease, of each contracted capacity
updateConsumerExtended(c, tk, rk, contractedCapacity, contractedWasteCapacity) ==
  IF updateConsumerExtendedError(c, contractedCapacity, contractedWasteCapacity) # "none"
    THEN UNCHANGED ledger
  ELSE /\ consumers' = [consumers EXCEPT
                          ![c].contractedCapacity = contractedCapacity,
                          ![c].contractedWasteCapacity = contractedWasteCapacity]
       /\ watc' = [watc EXCEPT ![c] = @ + contractedCapacity
                                        - consumers[c].contractedCapacity]
       /\ wstc' = [wstc EXCEPT ![c] = @ + contractedWasteCapacity
                                        - consumers[c].contractedWasteCapacity]
       /\ UNCHANGED <<tariffs, reservoirs, wtk, wst>>

RegisterConsumerExtendedCall(c, tk, rk, contractedCapacity, contractedWasteCapacity) ==
  /\ registerConsumerExtended(c, tk, rk, contractedCapacity, contractedWasteCapacity)
  /\ Respond("registerConsumer", c,
             ExtendedArgs(tk, rk, contractedCapacity, contractedWasteCapacity),
             Status(registerConsumerError(c, tk, rk), 200),
             registerConsumerError(c, tk, rk))

\* variant: the waste-capacity tokens follow the water capacity
UpdateConsumerExtendedCallWaterOnly(c, tk, rk, contractedCapacity, contractedWasteCapacity) ==
  LET err == updateConsumerExtendedError(c, contractedCapacity, contractedWasteCapacity)
  IN  /\ IF err # "none" THEN UNCHANGED ledger
         ELSE /\ consumers' = [consumers EXCEPT
                                 ![c].contractedCapacity = contractedCapacity,
                                 ![c].contractedWasteCapacity = contractedWasteCapacity]
              /\ watc' = [watc EXCEPT ![c] = contractedCapacity]
              /\ wstc' = [wstc EXCEPT ![c] = contractedCapacity]
              /\ UNCHANGED <<tariffs, reservoirs, wtk, wst>>
      /\ Respond("updateConsumer", c,
                 ExtendedArgs(tk, rk, contractedCapacity, contractedWasteCapacity),
                 Status(err, 200), err)

UpdateConsumerExtendedCall(c, tk, rk, contractedCapacity, contractedWasteCapacity) ==
  /\ updateConsumerExtended(c, tk, rk, contractedCapacity, contractedWasteCapacity)
  /\ Respond("updateConsumer", c,
             ExtendedArgs(tk, rk, contractedCapacity, contractedWasteCapacity),
             Status(updateConsumerExtendedError(c, contractedCapacity,
                                                contractedWasteCapacity), 200),
             updateConsumerExtendedError(c, contractedCapacity, contractedWasteCapacity))

InitExtended ==
  /\ tariffs = ("t1" :> [tariffKey |-> "t1", waterRate |-> 2000, wasteRate |-> 3000,
                         tariffType |-> "uniformIbt"])
  /\ reservoirs = ("r1" :> [reservoirKey |-> "r1", currentLevel |-> 950000,
                            capacity |-> 1000000])
  /\ consumers = << >>
  /\ wtk = << >>
  /\ watc = << >>
  /\ wst = << >>
  /\ wstc = << >>
  /\ last = [op |-> "postReservoir", key |-> "r1", arg |-> 950000, status |-> 200,
             err |-> "none"]
  /\ TokensReady
  /\ pending = {}
  /\ headers = NoHeaders

NextExtended ==
  \/ \E c \in ExtendedConsumerKeys, tk \in CallTariffKeys,
        cp \in 0..MaxExtendedCapacity, wc \in 0..MaxExtendedCapacity :
       RegisterConsumerExtendedCall(c, tk, "r1", cp, wc) /\ UNCHANGED <<registry, pending, headers, middleware>>
  \/ \E c \in ExtendedConsumerKeys,
        cp \in 0..MaxExtendedCapacity, wc \in 0..MaxExtendedCapacity :
       UpdateConsumerExtendedCall(c, "t1", "r1", cp, wc) /\ UNCHANGED <<registry, pending, headers, middleware>>

SpecExtended == InitExtended /\ [][NextExtended]_vars

(***************************************************************************)
(* The routes behind their middlewares: every mutating route runs          *)
(* authorizeWallet first, the routes that sign for the consumer            *)
(* authorizeConsumerKeypair next, and only then the handler.               *)
(***************************************************************************)
\* header values: the JSON of the agency wallet's secret key, of another
\* keypair's and of the consumer's, a text that is no secret key, no header
AgencySecret == "agencySecret"
OtherSecret == "otherSecret"
ConsumerSecret == "consumerSecret"
AuthorizationHeaders == {NoHeader, "malformed", OtherSecret, AgencySecret}
ConsumerAuthorizationHeaders == {NoHeader, "malformed", ConsumerSecret}
MaxRouteBalance == 2
MaxRouteWaste == 2

\* Keypair.fromSecretKey(Uint8Array.from(JSON.parse(header))).publicKey, or
\* "throws" when the header is no JSON array of a secret key
fromSecretKey(header) ==
  CASE header = AgencySecret -> "agency"
    [] header = OtherSecret -> "other"
    [] header = ConsumerSecret -> "consumer"
    [] OTHER -> "throws"

\* variant: any well-formed keypair is let through
authorizeWalletAnyKeypair(authHeader) ==
  IF authHeader = NoHeader THEN 403
  ELSE IF fromSecretKey(authHeader) = "throws" THEN 403
  ELSE 0

\* the status authorizeWallet answers with, 0 when it calls next()
authorizeWallet(authHeader) ==
  IF authHeader = NoHeader THEN 403
  ELSE IF fromSecretKey(authHeader) = "throws" THEN 403
  ELSE IF fromSecretKey(authHeader) # "agency" THEN 403
  ELSE 0

\* the status authorizeConsumerKeypair answers with, 0 when it calls next()
authorizeConsumerKeypair(authHeader) ==
  IF authHeader = NoHeader THEN 403
  ELSE IF fromSecretKey(authHeader) = "throws" THEN 403
  ELSE 0

\* a route with authorizeWallet and, where forConsumer, with
\* authorizeConsumerKeypair before its handler
Route(op, key, authorization, consumerAuthorization, forConsumer, handler) ==
  /\ headers' = [authorization |-> authorization,
                 consumerAuthorization |-> consumerAuthorization]
  /\ IF authorizeWallet(authorization) # 0
       THEN Respond(op, key, NoVal, authorizeWallet(authorization), "none")
            /\ UNCHANGED ledger
     ELSE IF forConsumer /\ authorizeConsumerKeypair(consumerAuthorization) # 0
       THEN Respond(op, key, NoVal, authorizeConsumerKeypair(consumerAuthorization),
                    "none")
            /\ UNCHANGED ledger
     ELSE handler

InitRoutes ==
  /\ tariffs = ("t1" :> [tariffKey |-> "t1", waterRate |-> 500, wasteRate |-> 1500,
                         tariffType |-> "uniformIbt"])
  /\ reservoirs = ("r1" :> [reservoirKey |-> "r1", currentLevel |-> 500, capacity |-> 1000])
  /\ consumers = ("c1" :> [assignedTariff |-> "t1", assignedReservoir |-> "r1",
                           contractedCapacity |-> 1, blockRate |-> 1500])
  /\ watc = ("c1" :> 1)
  /\ wtk = ("c1" :> 0)
  /\ wst = ("c1" :> 0)
  /\ wstc = << >>
  /\ last = [op |-> "postConsumer", key |-> "c1", arg |-> 1, status |-> 201, err |-> "none"]
  /\ TokensReady
  /\ pending = {}
  /\ headers = [authorization |-> AgencySecret, consumerAuthorization |-> NoHeader]

\* the routes without authorizeConsumerKeypair are sent no Consumer-Authorization
NextRoutes ==
  \E a \in AuthorizationHeaders, ca \in ConsumerAuthorizationHeaders :
    \/ /\ ca = NoHeader
       /\ Route("postTariff", "-", a, ca, FALSE, PostTariff("t2", 1500, 500, "seasonalIbt"))
       /\ UNCHANGED <<registry, pending, middleware>>
    \/ /\ ca = NoHeader
       /\ Route("putTariff", "t1", a, ca, FALSE, PutTariff("t1", 500, 1500, NoType))
       /\ UNCHANGED <<registry, pending, middleware>>
    \/ /\ ca = NoHeader
       /\ Route("postReservoir", "-", a, ca, FALSE, PostReservoir("r2", 1000, 1000))
       /\ UNCHANGED <<registry, pending, middleware>>
    \/ /\ ca = NoHeader
       /\ Route("putReservoir", "r1", a, ca, FALSE, PutReservoir("r1", 500, 1000))
       /\ UNCHANGED <<registry, pending, middleware>>
    \/ /\ ca = NoHeader
       /\ Route("postConsumer", "-", a, ca, FALSE, PostConsumer("c2", "t1", "r1", 1, 1500))
       /\ UNCHANGED <<registry, pending, middleware>>
    \/ /\ Route("putConsumer", "c1", a, ca, TRUE, PutConsumer("c1", 2, 1500))
       /\ UNCHANGED <<registry, pending, middleware>>
    \/ /\ ca = NoHeader
       /\ Route("putConsumerTariff", "c1", a, ca, FALSE, PutConsumerTariff("c1", "t1"))
       /\ UNCHANGED <<registry, pending, middleware>>
    \/ /\ ca = NoHeader
       /\ Route("putConsumerReservoir", "c1", a, ca, FALSE,
                PutConsumerReservoir("c1", "r1"))
       /\ UNCHANGED <<registry, pending, middleware>>
    \/ /\ Route("wasteCharge", "c1", a, ca, FALSE,
                WasteCharge("c1", 1) /\ WithinBalance(MaxRouteBalance, MaxRouteWaste))
       /\ UNCHANGED <<registry, pending, middleware>>
    \/ /\ Route("waterCharge", "c1", a, ca, TRUE,
                WaterCharge("c1", 1) /\ WithinBalance(MaxRouteBalance, MaxRouteWaste))
       /\ UNCHANGED <<registry, pending, middleware>>
    \/ /\ Route("wastePay", "c1", a, ca, TRUE, WastePay("c1", 1))
       /\ UNCHANGED <<registry, pending, middleware>>
    \/ /\ Route("waterPay", "c1", a, ca, TRUE, WaterPay("c1", 1))
       /\ UNCHANGED <<registry, pending, middleware>>

SpecRoutes == InitRoutes /\ [][NextRoutes]_vars

(***************************************************************************)
(* The middleware module: each server calls InitOrFetchTokens once when    *)
(* the module loads, tokensPromise settles when its then or catch callback *)
(* has run, and ensureTokensInitialized runs before every consumer route.  *)
(* pending holds the requests: where they are in the middleware (pc) and   *)
(* the req.tokens they were given.                                         *)
(***************************************************************************)
MaxMiddlewareRequests == 2

MiddlewareRequest(p, id, pc, tokens) ==
  [server |-> p, id |-> id, pc |-> pc, tokens |-> tokens]

\* const tokensPromise = InitOrFetchTokens(): the call made at module load
StartTokens(p) ==
  /\ calls[p].pc = "idle"
  /\ FetchTokens(p)
  /\ UNCHANGED middleware

\* .then((mints) => { tokens = mints; })
ThenTokens(p) ==
  /\ calls[p].pc = "returned"
  /\ middleware[p].tokensPromise = "pending"
  /\ middleware' = [middleware EXCEPT ![p] = [tokens |-> calls[p].result,
                                              tokensPromise |-> "resolved"]]
  /\ UNCHANGED registry

\* .catch((error) => { console.error(...) })
CatchTokens(p) ==
  /\ calls[p].pc = "failed"
  /\ middleware[p].tokensPromise = "pending"
  /\ middleware' = [middleware EXCEPT ![p].tokensPromise = "resolved"]
  /\ UNCHANGED registry

\* variant: the middleware attaches tokens without awaiting tokensPromise
ensureTokensInitializedNoAwait(p, id) ==
  /\ calls[p].pc # "idle"
  /\ Cardinality(pending) < MaxMiddlewareRequests
  /\ \A req \in pending : ~(req.server = p /\ req.id = id)
  /\ pending' = pending \cup {MiddlewareRequest(p, id, "next", middleware[p].tokens)}
  /\ UNCHANGED <<registry, middleware>>

\* ensureTokensInitialized up to its await: a request that finds tokens set
\* goes on to its handler at once
ensureTokensInitialized(p, id) ==
  /\ calls[p].pc # "idle"
  /\ Cardinality(pending) < MaxMiddlewareRequests
  /\ \A req \in pending : ~(req.server = p /\ req.id = id)
  /\ IF middleware[p].tokens = << >>
       THEN pending' = pending \cup {MiddlewareRequest(p, id, "await", << >>)}
       ELSE pending' = pending \cup
              {MiddlewareRequest(p, id, "next", middleware[p].tokens)}
  /\ UNCHANGED <<registry, middleware>>

\* ensureTokensInitialized from its await on: 500 when tokens is still not
\* set, else req.tokens = tokens and next()
ensureTokensResume(req) ==
  /\ req.pc = "await"
  /\ middleware[req.server].tokensPromise = "resolved"
  /\ IF middleware[req.server].tokens = << >>
       THEN pending' = (pending \ {req}) \cup {[req EXCEPT !.pc = "500"]}
       ELSE pending' = (pending \ {req}) \cup
              {[req EXCEPT !.pc = "next", !.tokens = middleware[req.server].tokens]}
  /\ UNCHANGED <<registry, middleware>>

NextMiddleware ==
  \/ \E p \in Servers : StartTokens(p) /\ UNCHANGED <<ledger, last, pending, headers>>
  \/ \E p \in Servers :
       /\ CreateMint(p)
       /\ UNCHANGED <<ledger, last, pending, headers, middleware>>
  \/ \E p \in Servers :
       /\ InitializeTokens(p)
       /\ UNCHANGED <<ledger, last, pending, headers, middleware>>
  \/ \E p \in Servers : ThenTokens(p) /\ UNCHANGED <<ledger, last, pending, headers>>
  \/ \E p \in Servers : CatchTokens(p) /\ UNCHANGED <<ledger, last, pending, headers>>
  \/ \E p \in Servers, id \in {1, 2} :
       ensureTokensInitialized(p, id) /\ UNCHANGED <<ledger, last, headers>>
  \/ \E req \in pending : ensureTokensResume(req) /\ UNCHANGED <<ledger, last, headers>>

SpecMiddleware == InitTokens /\ [][NextMiddleware]_vars

(***************************************************************************)
(* PUT /tariff/:pubkey as the handler runs it: updateTariffRates and       *)
(* updateTariffType are two transactions, each sent by its own rpc() call, *)
(* and rpc() rejects when the instruction fails or when the transaction    *)
(* could not be sent or confirmed.  pending holds the requests between the *)
(* two calls, with the rates the first call replaced.                      *)
(***************************************************************************)
MaxTariffPuts == 1

TariffPut(pubkey, arg, replaced) ==
  [kind |-> "putTariff", key |-> pubkey, arg |-> arg, replaced |-> replaced]

\* the error rpc() rejects with: the instruction's own, else the host's
RpcError(err, outcome) == IF err # "none" THEN err ELSE outcome

\* PUT /tariff/:pubkey up to the end of the updateTariffRates call
PutTariffRates(pubkey, water_rate, waste_rate, tariff_type, outcome) ==
  LET arg == TariffFields(water_rate, waste_rate, tariff_type)
      err == RpcError(updateTariffRatesError(pubkey), outcome)
  IN  IF tariff_type # NoType /\ tariff_type \notin TariffTypes
        THEN Respond("putTariff", pubkey, arg, 400, "none")
             /\ UNCHANGED <<ledger, pending>>
      ELSE IF ~(Truthy(water_rate) /\ Truthy(waste_rate)) /\ tariff_type = NoType
        THEN Respond("putTariff", pubkey, arg, 400, "none")
             /\ UNCHANGED <<ledger, pending>>
      ELSE IF ~(Truthy(water_rate) \/ Truthy(waste_rate))
        THEN /\ Cardinality(pending) < MaxTariffPuts
             /\ outcome = "none"
             /\ pending' = pending \cup {TariffPut(pubkey, arg, << >>)}
             /\ UNCHANGED <<ledger, last>>
      ELSE IF err # "none"
        THEN Respond("putTariff", pubkey, arg, 500, err)
             /\ UNCHANGED <<ledger, pending>>
      ELSE /\ tariffs' = updateTariffRates(tariffs, pubkey, BN(water_rate),
                                           BN(waste_rate))
           /\ UNCHANGED <<reservoirs, consumers, wtk, watc, wst, wstc>>
           /\ IF tariff_type = NoType
                THEN Respond("putTariff", pubkey, arg, 200, "none")
                     /\ UNCHANGED pending
                ELSE /\ Cardinality(pending) < MaxTariffPuts
                     /\ pending' = pending \cup
                          {TariffPut(pubkey, arg, tariffs[pubkey])}
                     /\ UNCHANGED last

\* PUT /tariff/:pubkey from the updateTariffType call on
PutTariffType(req, outcome) ==
  LET err == RpcError(updateTariffRatesError(req.key), outcome)
  IN  /\ req.kind = "putTariff"
      /\ pending' = pending \ {req}
      /\ IF err # "none"
           THEN Respond("putTariff", req.key, req.arg, 500, err)
                /\ UNCHANGED ledger
           ELSE /\ tariffs' = updateTariffType(tariffs, req.key,
                                convertStringToTariffType(req.arg.tariff_type))
                /\ UNCHANGED <<reservoirs, consumers, wtk, watc, wst, wstc>>
                /\ Respond("putTariff", req.key, req.arg, 200, "none")

NextTariffPut ==
  \/ \E k \in UpdatedTariffKeys \cup UnknownKeys, water_rate \in {NoVal, 700},
        waste_rate \in {NoVal, 1700}, tariff_type \in {NoType, "seasonalDbt", "flat"},
        outcome \in {"none", "Transient"} :
       /\ PutTariffRates(k, water_rate, waste_rate, tariff_type, outcome)
       /\ UNCHANGED <<registry, headers, middleware>>
  \/ \E req \in pending, outcome \in {"none", "Transient"} :
       /\ PutTariffType(req, outcome)
       /\ UNCHANGED <<registry, headers, middleware>>

SpecTariffPut == InitAdmin /\ [][NextTariffPut]_vars

(***************************************************************************)
(* PUT /consumer/:pubkey and PUT /reservoir/:pubkey as the handlers run    *)
(* them: the account is fetched, and the instruction is submitted after    *)
(* the await with the fetched values in place of the omitted fields.       *)
(* pending holds the requests between the fetch and the instruction.       *)
(***************************************************************************)
MaxPuts == 2

ConsumerPut(pubkey, contracted_capacity, block_rate, consumerAccount) ==
  [kind |-> "putConsumer", key |-> pubkey, contracted_capacity |-> contracted_capacity,
   block_rate |-> block_rate, account |-> consumerAccount]

ReservoirPut(pubkey, current_level, capacity, fetched) ==
  [kind |-> "putReservoir", key |-> pubkey, current_level |-> current_level,
   capacity |-> capacity, fetched |-> fetched]

\* PUT /consumer/:pubkey up to the fetched consumer account
PutConsumerFetch(pubkey, contracted_capacity, block_rate) ==
  IF contracted_capacity = NoVal /\ block_rate = NoVal
    THEN Respond("putConsumer", pubkey, NoVal, 400, "none")
         /\ UNCHANGED <<ledger, pending>>
  ELSE IF pubkey \notin DOMAIN consumers
    THEN Respond("putConsumer", pubkey, NoVal, 500, "none")
         /\ UNCHANGED <<ledger, pending>>
  ELSE /\ Cardinality(pending) < MaxPuts
       /\ pending' = pending \cup
            {ConsumerPut(pubkey, contracted_capacity, block_rate, consumers[pubkey])}
       /\ UNCHANGED <<ledger, last>>

\* PUT /consumer/:pubkey from the updateConsumer instruction on
PutConsumerSubmit(req) ==
  LET updatedContractedCapacity ==
        IF req.contracted_capacity # NoVal THEN req.contracted_capacity
        ELSE req.account.contractedCapacity
      updatedBlockRate ==
        IF req.block_rate # NoVal THEN req.block_rate ELSE req.account.blockRate
      err == updateConsumerError(req.key, updatedContractedCapacity)
  IN  /\ req.kind = "putConsumer"
      /\ updateConsumer(req.key, req.account.assignedTariff,
                        req.account.assignedReservoir,
                        updatedContractedCapacity, updatedBlockRate)
      /\ Respond("putConsumer", req.key, req.contracted_capacity, Status(err, 200), err)
      /\ pending' = pending \ {req}

\* PUT /reservoir/:pubkey up to the capacity it will submit: the one of the
\* request, else the one of the fetched reservoir account
PutReservoirFetch(pubkey, current_level, capacity) ==
  LET arg == ReservoirFields(current_level, capacity)
  IN  IF ~Truthy(current_level)
        THEN Respond("putReservoir", pubkey, arg, 400, "none")
             /\ UNCHANGED <<ledger, pending>>
      ELSE IF ~Truthy(capacity) /\ pubkey \notin DOMAIN reservoirs
        THEN Respond("putReservoir", pubkey, arg, 500, "none")
             /\ UNCHANGED <<ledger, pending>>
      ELSE /\ Cardinality(pending) < MaxPuts
           /\ pending' = pending \cup
                {ReservoirPut(pubkey, current_level,
                              IF Truthy(capacity) THEN capacity
                              ELSE reservoirs[pubkey].capacity,
                              ~Truthy(capacity))}
           /\ UNCHANGED <<ledger, last>>

\* PUT /reservoir/:pubkey from the updateReservoir instruction on; last.arg
\* records the fields submitted
PutReservoirSubmit(req) ==
  LET err == updateReservoirError(req.key)
  IN  /\ req.kind = "putReservoir"
      /\ updateReservoir(req.key, req.current_level, req.capacity)
      /\ Respond("putReservoir", req.key,
                 ReservoirFields(req.current_level, req.capacity), Status(err, 200), err)
      /\ pending' = pending \ {req}

NextPuts ==
  \/ \E c \in ConsumerKeys \cup UnknownKeys, contracted_capacity \in {NoVal, 2},
        block_rate \in {NoVal, 1600} :
       /\ PutConsumerFetch(c, contracted_capacity, block_rate)
       /\ UNCHANGED <<registry, headers, middleware>>
  \/ \E req \in pending :
       PutConsumerSubmit(req) /\ UNCHANGED <<registry, headers, middleware>>
  \/ \E k \in UpdatedReservoirKeys \cup UnknownKeys, current_level \in {NoVal, 500},
        capacity \in {NoVal, 2000} :
       /\ PutReservoirFetch(k, current_level, capacity)
       /\ UNCHANGED <<registry, headers, middleware>>
  \/ \E req \in pending :
       PutReservoirSubmit(req) /\ UNCHANGED <<registry, headers, middleware>>

SpecPuts == InitAdmin /\ [][NextPuts]_vars

(***************************************************************************)
(* POST /consumer/:pubkey/water/charge as the handler runs it: the         *)
(* consumer account is fetched, and useWater is submitted after the await  *)
(* with the references of the fetched account, while reassignments and     *)
(* updates of the same consumer are served in between.                     *)
(***************************************************************************)
MaxCharges == 1
MaxChargeBalance == 3

WaterChargeRequest(pubkey, amount, consumerAccount) ==
  [kind |-> "waterCharge", key |-> pubkey, amount |-> amount, account |-> consumerAccount]

\* POST /consumer/:pubkey/water/charge up to the fetched consumer account
WaterChargeFetch(pubkey, amount) ==
  IF amount = NoVal \/ amount = 0
    THEN Respond("waterCharge", pubkey, NoVal, 400, "none")
         /\ UNCHANGED <<ledger, pending>>
  ELSE IF pubkey \notin DOMAIN consumers
    THEN Respond("waterCharge", pubkey, NoVal, 500, "none")
         /\ UNCHANGED <<ledger, pending>>
  ELSE /\ Cardinality(pending) < MaxCharges
       /\ pending' = pending \cup {WaterChargeRequest(pubkey, amount, consumers[pubkey])}
       /\ UNCHANGED <<ledger, last>>

\* POST /consumer/:pubkey/water/charge from the useWater instruction on
WaterChargeSubmit(req) ==
  LET err == useWaterError(req.key, req.account.assignedTariff,
                           req.account.assignedReservoir, req.amount)
  IN  /\ req.kind = "waterCharge"
      /\ useWater(req.key, req.account.assignedTariff, req.account.assignedReservoir,
                  req.amount)
      /\ Respond("waterCharge", req.key, req.amount, Status(err, 200), err)
      /\ pending' = pending \ {req}

InitCharge ==
  /\ tariffs = ("t1" :> [tariffKey |-> "t1", waterRate |-> 500, wasteRate |-> 1500,
                         tariffType |-> "uniformIbt"])
               @@ ("t2" :> [tariffKey |-> "t2", waterRate |-> 1500, wasteRate |-> 500,
                            tariffType |-> "seasonalIbt"])
  /\ reservoirs = ("r1" :> [reservoirKey |-> "r1", currentLevel |-> 0, capacity |-> 1000])
                  @@ ("r2" :> [reservoirKey |-> "r2", currentLevel |-> 500,
                               capacity |-> 2000])
  /\ consumers = ("c1" :> [assignedTariff |-> "t1", assignedReservoir |-> "r1",
                           contractedCapacity |-> 1, blockRate |-> 1500])
  /\ watc = ("c1" :> 1)
  /\ wtk = ("c1" :> 0)
  /\ wst = ("c1" :> 0)
  /\ wstc = << >>
  /\ last = [op |-> "postConsumer", key |-> "c1", arg |-> 1, status |-> 201, err |-> "none"]
  /\ TokensReady
  /\ pending = {}
  /\ headers = NoHeaders

NextCharge ==
  \/ \E c \in ConsumerKeys \cup UnknownKeys, amount \in {NoVal, 1, 2} :
       WaterChargeFetch(c, amount) /\ UNCHANGED <<registry, headers, middleware>>
  \/ \E req \in pending :
       /\ WaterChargeSubmit(req)
       /\ WithinBalance(MaxChargeBalance, 0)
       /\ UNCHANGED <<registry, headers, middleware>>
  \/ \E c \in ConsumerKeys, tk \in AdminTariffKeys :
       PutConsumerTariff(c, tk) /\ UNCHANGED <<registry, pending, headers, middleware>>
  \/ \E c \in ConsumerKeys, rk \in AdminReservoirKeys :
       PutConsumerReservoir(c, rk) /\ UNCHANGED <<registry, pending, headers, middleware>>
  \/ \E c \in ConsumerKeys, contracted_capacity \in {NoVal, 2},
        block_rate \in {NoVal, 1600} :
       /\ PutConsumer(c, contracted_capacity, block_rate)
       /\ UNCHANGED <<registry, pending, headers, middleware>>

SpecCharge == InitCharge /\ [][NextCharge]_vars

(***************************************************************************)
(* Two consumers on one ledger: every instruction called directly, as the  *)
(* tests call them, next to updates of the tariff and of the reservoir.    *)
(* c1 goes through every operation while c2 registers and uses water.      *)
(***************************************************************************)
MaxLedgerBalance == 2
MaxLedgerWaste == 2

InitLedger ==
  /\ tariffs = [k \in AdminTariffKeys |->
                  [tariffKey |-> k, waterRate |-> 500, wasteRate |-> 1500,
                   tariffType |-> "uniformIbt"]]
  /\ reservoirs = [k \in AdminReservoirKeys |->
                     [reservoirKey |-> k, currentLevel |-> 500, capacity |-> 1000]]
  /\ consumers = << >>
  /\ watc = << >>
  /\ wtk = << >>
  /\ wst = << >>
  /\ wstc = << >>
  /\ last = [op |-> "postReservoir", key |-> "r1", arg |-> 500, status |-> 200,
             err |-> "none"]
  /\ TokensReady
  /\ pending = {}
  /\ headers = NoHeaders

NextLedger ==
  \/ \E c \in {"c1", "c2"} :
       /\ RegisterConsumerCall(c, "t1", "r1", 1, 1500)
       /\ UNCHANGED <<registry, pending, headers, middleware>>
  \/ \E cp \in {0, 2} :
       /\ UpdateConsumerCall("c1", "t1", "r1", cp, 1500)
       /\ UNCHANGED <<registry, pending, headers, middleware>>
  \/ /\ UpdateConsumerTariffCall("c1", "t1", "t2")
       /\ UNCHANGED <<registry, pending, headers, middleware>>
  \/ /\ UpdateConsumerReservoirCall("c1", "r1", "r2")
       /\ UNCHANGED <<registry, pending, headers, middleware>>
  \/ \E c \in {"c1", "c2"} :
       /\ c \in DOMAIN consumers
       /\ UseWaterCall(c, consumers[c].assignedTariff, consumers[c].assignedReservoir, 1)
       /\ WithinBalance(MaxLedgerBalance, MaxLedgerWaste)
       /\ UNCHANGED <<registry, pending, headers, middleware>>
  \/ /\ DisposeWasteCall("c1", "t1", 1)
       /\ WithinBalance(MaxLedgerBalance, MaxLedgerWaste)
       /\ UNCHANGED <<registry, pending, headers, middleware>>
  \/ /\ PayForWaterCall("c1", "t1", "r1", 1)
       /\ UNCHANGED <<registry, pending, headers, middleware>>
  \/ /\ PayForWasteCall("c1", "t1", 1)
       /\ UNCHANGED <<registry, pending, headers, middleware>>
  \/ PutTariff("t1", 1500, 500, NoType)
       /\ UNCHANGED <<registry, pending, headers, middleware>>
  \/ PutReservoir("r1", 1500, NoVal)
       /\ UNCHANGED <<registry, pending, headers, middleware>>

SpecLedger == InitLedger /\ [][NextLedger]_vars

(***************************************************************************)
(* Properties.  A step is recognised by the request last' records: the     *)
(* consumer is last'.key, the supplied capacity or amount last'.arg; the   *)
(* unprimed variables are the ledger before the request.                   *)
(***************************************************************************)
StepOf(op, status) == last'.op = op /\ last'.status = status /\ last'.arg # NoVal

TariffOf(c) == tariffs[consumers[c].assignedTariff]

ReservoirOf(c) == reservoirs[consumers[c].assignedReservoir]

\* C1  Capacity conservation: right after register(c, C0) the capacity-token
\* balance of c is C0, and a successful update(c, Ci) of a consumer whose
\* balance equals its contracted capacity (as it does after a register that
\* only successful updates followed) leaves the balance at Ci, the capacity
\* now stored, whether Ci is above or below the previous value; the balance
\* is never stale and never negative.
CapacityConservation ==
  [][ /\ StepOf("postConsumer", 201) =>
           /\ last'.key \in DOMAIN consumers'
           /\ watc'[last'.key] = last'.arg
           /\ consumers'[last'.key].contractedCapacity = last'.arg
      /\ ( /\ StepOf("putConsumer", 200)
           /\ watc[last'.key] = consumers[last'.key].contractedCapacity ) =>
           /\ watc'[last'.key] = last'.arg
           /\ consumers'[last'.key].contractedCapacity = last'.arg
           /\ watc'[last'.key] >= 0
    ]_vars

\* an update lowered the capacity of a consumer that never drew water: the
\* balance is the supplied capacity, below the largest registration
CapacityConservationWitness ==
  /\ last.op = "putConsumer" /\ last.status = 200 /\ last.arg # NoVal
  /\ last.arg = 1
  /\ watc[last.key] = last.arg
  /\ consumers[last.key].contractedCapacity = last.arg
  /\ wtk[last.key] = 0

UpdateBeyondBalanceFails ==
  [][ ( /\ last'.op = "putConsumer" /\ last'.arg # NoVal
        /\ last'.key \in DOMAIN consumers
        /\ last'.arg < consumers[last'.key].contractedCapacity
        /\ consumers[last'.key].contractedCapacity - last'.arg > watc[last'.key] ) =>
        /\ last'.err = "InsufficientBalance"
        /\ last'.status # 200
        /\ consumers' = consumers
        /\ watc' = watc
    ]_vars

\* a decrease was refused for a consumer that had drawn part of its capacity
UpdateBeyondBalanceWitness ==
  /\ last.op = "putConsumer" /\ last.err = "InsufficientBalance"
  /\ last.arg >= 0 /\ last.arg < consumers[last.key].contractedCapacity
  /\ watc[last.key] < consumers[last.key].contractedCapacity - last.arg

\* C4  In-contract pricing: under every tariff type a draw of amount, with
\* 0 < amount <= the capacity-token balance, mints ceil(amount * waterRate /
\* SCALE) usage tokens and lowers the capacity-token balance by amount.
InContractPricing ==
  [][ ( /\ StepOf("waterCharge", 200)
        /\ last'.arg <= watc[last'.key] ) =>
        /\ wtk'[last'.key] - wtk[last'.key]
             = CeilDiv(last'.arg * TariffOf(last'.key).waterRate, SCALE)
        /\ watc'[last'.key] = watc[last'.key] - last'.arg
    ]_vars

\* one unit drawn from a capacity of two: half a token, billed as one
InContractPricingWitness ==
  /\ last.op = "waterCharge" /\ last.status = 200 /\ last.arg = 1
  /\ consumers[last.key].contractedCapacity = 2
  /\ watc[last.key] = 1
  /\ wtk[last.key] = 1

\* C5  Excess pricing, uniformIbt: a consumer holding its full contracted
\* capacity C that draws A > C is billed ceil(C * R / SCALE) +
\* ceil((A - C) * E / SCALE) usage tokens, R the water rate and E the
\* consumer's block rate, and its capacity-token balance ends at 0.
UniformExcessPricing ==
  [][ ( /\ StepOf("waterCharge", 200)
        /\ TariffOf(last'.key).tariffType = "uniformIbt"
        /\ watc[last'.key] = consumers[last'.key].contractedCapacity
        /\ last'.arg > watc[last'.key] ) =>
        /\ wtk'[last'.key] - wtk[last'.key]
             = CeilDiv(watc[last'.key] * TariffOf(last'.key).waterRate, SCALE)
               + CeilDiv((last'.arg - watc[last'.key]) * consumers[last'.key].blockRate,
                         SCALE)
        /\ watc'[last'.key] = 0
    ]_vars

\* capacity 1 and a draw of 2: one token for the unit in contract, two for
\* the unit beyond it
UniformExcessPricingWitness ==
  /\ last.op = "waterCharge" /\ last.status = 200 /\ last.arg = 2
  /\ TariffOf(last.key).tariffType = "uniformIbt"
  /\ consumers[last.key].contractedCapacity = 1
  /\ watc[last.key] = 0
  /\ wtk[last.key] = 3

\* a successful draw beyond the capacity tokens held, under tariff type ty
ExcessStep(ty) ==
  /\ StepOf("waterCharge", 200)
  /\ TariffOf(last'.key).tariffType = ty
  /\ last'.arg > watc[last'.key]

\* the usage tokens the step mints
Minted == wtk'[last'.key] - wtk[last'.key]

FixtureExcessStep ==
  /\ ExcessStep("seasonalIbt")
  /\ last'.arg = 120000
  /\ watc[last'.key] = 100000
  /\ consumers[last'.key].blockRate = 800
  /\ TariffOf(last'.key).waterRate = 500
  /\ ReservoirOf(last'.key).capacity = 1000000
  /\ ReservoirOf(last'.key).currentLevel = 950000

\* C7 as stated  seasonalIbt worked example: the draw mints the value the
\* reference test asserts, (C*R + ((A-C)*800/SCALE)*(M-L))/SCALE = 850000,
\* and the worked example of the design specification (the excess 20000 at
\* the multiplier 500 + 800*50000/SCALE) yields that same value.
WorkedExampleAgrees ==
  [][ FixtureExcessStep =>
        /\ Minted = (100000 * 500 + ((20000 * 800) \div SCALE) * (1000000 - 950000))
                      \div SCALE
        /\ Minted = CeilDiv(100000 * 500, SCALE)
                    + CeilDiv(20000 * (500 + (800 * 50000) \div SCALE), SCALE)
    ]_vars

\* C7  seasonalIbt worked example: with SCALE = 1000, C = 100000, R = 500,
\* block rate 800, M = 1000000, L = 950000 and A = 120000 the draw mints
\* (C*R + ((A-C)*800/SCALE)*(M-L))/SCALE = 850000 usage tokens, the value
\* the reference test asserts; the worked example's multiplier
\* 500 + 800*50000/SCALE yields another value, 860000.
WorkedExampleTestValue ==
  [][ FixtureExcessStep =>
        /\ Minted = (100000 * 500 + ((20000 * 800) \div SCALE) * (1000000 - 950000))
                      \div SCALE
        /\ Minted = 850000
        /\ Minted # CeilDiv(100000 * 500, SCALE)
                    + CeilDiv(20000 * (500 + (800 * 50000) \div SCALE), SCALE)
    ]_vars

\* the first draw of the test: 850000 usage tokens, no capacity token left
WorkedExampleTestValueWitness ==
  /\ last.op = "waterCharge" /\ last.status = 200 /\ last.arg = 120000
  /\ TariffOf(last.key).tariffType = "seasonalIbt"
  /\ wtk[last.key] = 850000
  /\ watc[last.key] = 0
  /\ wst[last.key] = 0

WastePricing ==
  [][ StepOf("wasteCharge", 200) =>
        /\ wst'[last'.key] - wst[last'.key]
             = CeilDiv(last'.arg * TariffOf(last'.key).wasteRate, SCALE)
        /\ wtk' = wtk
        /\ watc' = watc
    ]_vars

\* one unit disposed twice at 1500 / SCALE: two tokens each time
WastePricingWitness ==
  /\ last.op = "wasteCharge" /\ last.status = 200 /\ last.arg = 1
  /\ TariffOf(last.key).wasteRate = 1500
  /\ wst[last.key] = 4

\* C10  Payment: paying X for water (for waste) out of a usage (waste)
\* balance B >= X leaves B - X, so paying the accrued cost leaves 0; with
\* B < X the payment fails with InsufficientBalance and the balance stays B.
PaymentBurnsOrFails ==
  [][ /\ (last'.op = "waterPay" /\ last'.arg # NoVal) =>
           IF last'.arg <= wtk[last'.key]
             THEN last'.status = 200 /\ wtk'[last'.key] = wtk[last'.key] - last'.arg
             ELSE last'.err = "InsufficientBalance" /\ wtk' = wtk
      /\ (last'.op = "wastePay" /\ last'.arg # NoVal) =>
           IF last'.arg <= wst[last'.key]
             THEN last'.status = 200 /\ wst'[last'.key] = wst[last'.key] - last'.arg
             ELSE last'.err = "InsufficientBalance" /\ wst' = wst
    ]_vars

\* the whole usage balance was paid while a waste balance stayed due
PaymentBurnsOrFailsWitness ==
  /\ last.op = "waterPay" /\ last.status = 200 /\ last.arg = 3
  /\ wtk[last.key] = 0
  /\ wst[last.key] > 0

OneTokenSet ==
  tokensAccount # << >> =>
    mints = {tokensAccount[1], tokensAccount[2], tokensAccount[3]}

\* C13  Reassignment consistency: a successful reassign_tariff(c, old, new)
\* stores new as the tariff of c, nothing but a successful reassignment changes
\* the tariff a consumer is assigned, and every successful use_water of c is
\* priced with the values the assigned tariff holds at that moment; so after
\* the reassignment c pays by new, never by old, whatever happens to old.
ReassignedPricing ==
  [][ /\ \A c \in DOMAIN consumers :
           IF last'.op = "putConsumerTariff" /\ last'.status = 200 /\ last'.key = c
             THEN consumers'[c].assignedTariff = last'.arg[2]
             ELSE consumers'[c].assignedTariff = consumers[c].assignedTariff
      /\ \A c \in DOMAIN consumers :
           (StepOf("waterCharge", 200) /\ last'.key = c) =>
             /\ consumers[c].assignedTariff \in DOMAIN tariffs
             /\ wtk'[c] - wtk[c] =
                  UsageCost(TariffOf(c).tariffType, last'.arg, watc[c],
                            TariffOf(c).waterRate, consumers[c].blockRate,
                            ReservoirOf(c).currentLevel, ReservoirOf(c).capacity) ]_vars

\* a charge of a consumer reassigned to t2, after t1 was given other rates
ReassignedPricingWitness ==
  /\ last.op = "waterCharge" /\ last.status = 200 /\ last.key = "c1"
  /\ consumers["c1"].assignedTariff = "t2"
  /\ tariffs["t1"].waterRate # tariffs["t2"].waterRate
  /\ tariffs["t1"].waterRate # 500
  /\ wtk["c1"] > 0

\* the reference of consumer c that a request of this kind swaps
Stored(kind, c) ==
  IF kind = "tariff" THEN consumers[c].assignedTariff
  ELSE consumers[c].assignedReservoir

\* a submitted reassignment succeeds exactly if its old is the stored reference
SubmitChecksOld ==
  \A req \in pending :
    (req.outcome = "inflight" /\ req \notin pending') =>
      IF req.old = Stored(req.kind, req.c)
        THEN /\ [req EXCEPT !.outcome = "ok"] \in pending'
             /\ last'.status = 200
             /\ Stored(req.kind, req.c)' = req.new
        ELSE /\ [req EXCEPT !.outcome = "Mismatch"] \in pending'
             /\ last'.err = "Mismatch"
             /\ consumers' = consumers

\* two requests of one kind for one consumer, same old, different new targets
Rivals(a, b) ==
  /\ a.kind = b.kind /\ a.c = b.c /\ a.old = b.old /\ a.new # b.new

Succeeded(kind, c) ==
  {req \in pending : req.kind = kind /\ req.c = c /\ req.outcome = "ok"}

\* a single success leaves its target stored
OnlySuccessStored ==
  \A a \in pending :
    Succeeded(a.kind, a.c) = {a} => Stored(a.kind, a.c) = a.new

AtMostOneRival ==
  \A a, b \in pending : Rivals(a, b) => ~(a.outcome = "ok" /\ b.outcome = "ok")

\* no successful reassignment stored the old reference of a again
AtMostOneRivalUnlessRestored ==
  \A a, b \in pending :
    (Rivals(a, b) /\ \A r \in Succeeded(a.kind, a.c) : r.new # a.old) =>
      ~(a.outcome = "ok" /\ b.outcome = "ok")

\* C14 as stated  Optimistic reassignment: reassign_tariff and
\* reassign_reservoir succeed only if old equals the stored reference, else
\* they fail with Mismatch and leave the reference unchanged; of two
\* reassignments with the same old and different new targets at most one
\* succeeds, and the stored reference is that one's target.
OptimisticReassignment ==
  [][SubmitChecksOld /\ OnlySuccessStored' /\ AtMostOneRival']_vars

\* C14  Optimistic reassignment: as above, with at most one of two rival
\* reassignments succeeding as long as no successful reassignment (the two
\* included) has their common old reference as its target.
OptimisticReassignmentUnlessRestored ==
  [][SubmitChecksOld /\ OnlySuccessStored' /\ AtMostOneRivalUnlessRestored']_vars

\* two rivals from t1, to t2 and to t3: the first succeeded, the second failed
OptimisticReassignmentWitness ==
  \E a, b \in pending :
    /\ Rivals(a, b) /\ a.kind = "tariff" /\ a.old = "t1"
    /\ a.new = "t2" /\ b.new = "t3"
    /\ a.outcome = "ok" /\ b.outcome = "Mismatch"
    /\ consumers["c1"].assignedTariff = "t2"
    /\ last.op = "putConsumerTariff" /\ last.err = "Mismatch"

\* C15  Tariff creation: creating a tariff under an id that exists fails with
\* AlreadyExists and changes no tariff; creating one under a fresh id stores a
\* record whose tariff_key is the id, with the supplied rates and structure,
\* and changes no other tariff; no step ever changes or removes the
\* tariff_key of a tariff.
TariffCreation ==
  [][ /\ last'.op = "initializeTariff" =>
           LET k == last'.key
               f == last'.arg
           IN  IF k \in DOMAIN tariffs
                 THEN last'.err = "AlreadyExists" /\ tariffs' = tariffs
                 ELSE /\ last'.err = "none"
                      /\ DOMAIN tariffs' = DOMAIN tariffs \cup {k}
                      /\ tariffs'[k] = [tariffKey |-> k, waterRate |-> f.water_rate,
                                        wasteRate |-> f.waste_rate,
                                        tariffType |-> f.tariff_type]
      /\ StepOf("postTariff", 200) =>
           /\ last'.key \notin DOMAIN tariffs
           /\ DOMAIN tariffs' = DOMAIN tariffs \cup {last'.key}
           /\ tariffs'[last'.key].tariffKey = last'.key
           /\ tariffs'[last'.key].waterRate = last'.arg
           /\ tariffs'[last'.key].tariffType \in TariffTypes
      /\ last'.op \in {"initializeTariff", "postTariff"} =>
           \A j \in DOMAIN tariffs : tariffs'[j] = tariffs[j]
      /\ \A j \in DOMAIN tariffs :
           j \in DOMAIN tariffs' /\ tariffs'[j].tariffKey = j /\ tariffs[j].tariffKey = j
    ]_vars

\* initializeTariff on the existing t1 refused, t1 as it was, t2 created before
TariffCreationWitness ==
  /\ last.op = "initializeTariff" /\ last.key = "t1" /\ last.err = "AlreadyExists"
  /\ tariffs["t1"].waterRate # last.arg.water_rate
  /\ "t2" \in DOMAIN tariffs
  /\ tariffs["t2"] = [tariffKey |-> "t2", waterRate |-> 1500, wasteRate |-> 500,
                      tariffType |-> "seasonalIbt"]

\* C16  Partial tariff rate update: a PUT /tariff/:pubkey that supplies some of
\* the rate fields of an existing tariff (a supplied 0 included, with or
\* without tariff_type) replaces each supplied rate with the supplied value
\* and keeps the stored value of each omitted rate.
PartialRateUpdate ==
  [][ (last'.op = "putTariff" /\ last'.key \in DOMAIN tariffs) =>
        LET k == last'.key
            f == last'.arg
        IN  (f.water_rate # NoVal \/ f.waste_rate # NoVal) =>
              /\ tariffs'[k].waterRate =
                   IF f.water_rate # NoVal THEN f.water_rate ELSE tariffs[k].waterRate
              /\ tariffs'[k].wasteRate =
                   IF f.waste_rate # NoVal THEN f.waste_rate ELSE tariffs[k].wasteRate
    ]_vars

\* C17  update_structure(tariff_id, S), as PUT /tariff/:pubkey submits it for
\* a request with tariff_type S, replaces the stored rate structure in one
\* step: afterwards the stored structure is S, tariff_key is unchanged, and
\* when the request carries no rate the rates are unchanged as well; no other
\* tariff changes.
StructureReplaced ==
  [][ (last'.op = "putTariff" /\ last'.status = 200
         /\ last'.arg.tariff_type # NoType) =>
        LET k == last'.key
            f == last'.arg
        IN  /\ tariffs'[k].tariffType = f.tariff_type
            /\ tariffs'[k].tariffKey = tariffs[k].tariffKey
            /\ (f.water_rate \in {NoVal, 0} /\ f.waste_rate \in {NoVal, 0}) =>
                  tariffs'[k] = [tariffs[k] EXCEPT !.tariffType = f.tariff_type]
            /\ DOMAIN tariffs' = DOMAIN tariffs
            /\ \A j \in DOMAIN tariffs \ {k} : tariffs'[j] = tariffs[j]
    ]_vars

\* the structure of t1 replaced by a request that carries the structure only
StructureReplacedWitness ==
  /\ last.op = "putTariff" /\ last.status = 200 /\ last.key = "t1"
  /\ last.arg = TariffFields(NoVal, NoVal, "seasonalIbt")
  /\ tariffs["t1"] = [tariffKey |-> "t1", waterRate |-> 500, wasteRate |-> 1500,
                      tariffType |-> "seasonalIbt"]

\* C18  No retroactive re-pricing: creating a tariff, updating its rates or
\* its structure, and creating or updating a reservoir leave the usage-,
\* capacity- and waste-token balance of every consumer unchanged.
NoRetroactiveRepricing ==
  [][ last'.op \in {"postTariff", "initializeTariff", "putTariff",
                    "postReservoir", "putReservoir"} =>
        wtk' = wtk /\ watc' = watc /\ wst' = wst ]_vars

\* the reservoir of c1 updated while c1 holds usage and waste tokens minted
\* before, under a tariff whose rates were changed since
NoRetroactiveRepricingWitness ==
  /\ last.op = "putReservoir" /\ last.status = 200 /\ last.key = "r1"
  /\ reservoirs["r1"].currentLevel = 1500 /\ reservoirs["r1"].capacity = 2000
  /\ tariffs["t1"].waterRate = 1500 /\ tariffs["t1"].tariffType = "seasonalIbt"
  /\ consumers["c1"].assignedTariff = "t1" /\ consumers["c1"].assignedReservoir = "r1"
  /\ wtk["c1"] > 0 /\ wst["c1"] > 0 /\ watc["c1"] = 0

\* the request before this step was a successful update of record k
UpdatedJustBefore(op, k) == last.op = op /\ last.status = 200 /\ last.key = k

\* C19  Live references: the use_water or dispose_waste that follows a
\* successful update of a tariff's rates or structure, or of a reservoir's
\* level and capacity, is priced for every consumer referencing that record
\* with the values the update supplied; and every charge, however long after
\* registration or reassignment, is priced with the values the referenced
\* records hold at that moment.
LiveReferences ==
  [][ \A c \in DOMAIN consumers :
        LET tk == consumers[c].assignedTariff
            rk == consumers[c].assignedReservoir
            water == StepOf("waterCharge", 200) /\ last'.key = c
            waste == StepOf("wasteCharge", 200) /\ last'.key = c
            cost(type, waterRate, level, capacity) ==
              UsageCost(type, last'.arg, watc[c], waterRate, consumers[c].blockRate,
                        level, capacity)
        IN  /\ (waste /\ UpdatedJustBefore("putTariff", tk)
                   /\ last.arg.water_rate > 0 /\ last.arg.waste_rate > 0) =>
                  wst'[c] - wst[c] = WasteCost(last'.arg, last.arg.waste_rate)
            /\ (water /\ UpdatedJustBefore("putTariff", tk)
                   /\ last.arg.water_rate > 0 /\ last.arg.waste_rate > 0) =>
                  wtk'[c] - wtk[c] =
                    cost(tariffs[tk].tariffType, last.arg.water_rate,
                         reservoirs[rk].currentLevel, reservoirs[rk].capacity)
            /\ (water /\ UpdatedJustBefore("putTariff", tk)
                   /\ last.arg.tariff_type # NoType) =>
                  wtk'[c] - wtk[c] =
                    cost(last.arg.tariff_type, tariffs[tk].waterRate,
                         reservoirs[rk].currentLevel, reservoirs[rk].capacity)
            /\ (water /\ UpdatedJustBefore("putReservoir", rk)
                   /\ last.arg.capacity > 0) =>
                  wtk'[c] - wtk[c] =
                    cost(tariffs[tk].tariffType, tariffs[tk].waterRate,
                         last.arg.current_level, last.arg.capacity)
            /\ waste => wst'[c] - wst[c] = WasteCost(last'.arg, tariffs[tk].wasteRate)
            /\ water =>
                  wtk'[c] - wtk[c] =
                    cost(tariffs[tk].tariffType, tariffs[tk].waterRate,
                         reservoirs[rk].currentLevel, reservoirs[rk].capacity)
    ]_vars

\* a waste charge of c1 at the rate t1 was updated to, not the one it had
\* when c1 registered
LiveReferencesWitness ==
  /\ last.op = "wasteCharge" /\ last.status = 200 /\ last.key = "c1"
  /\ consumers["c1"].assignedTariff = "t1"
  /\ tariffs["t1"].wasteRate = 500
  /\ wst["c1"] = WasteCost(last.arg, 500)

\* C20  Reservoir update is a full replace: PUT /reservoir/:pubkey with any
\* non-negative current_level and capacity (current_level = 0 included) sets
\* both stored fields of an existing reservoir to the supplied values and
\* leaves reservoir_key and every other reservoir unchanged; with an unknown
\* id it fails with NotFound and creates no record.
ReservoirFullReplace ==
  [][ (last'.op = "putReservoir"
         /\ last'.arg.current_level >= 0 /\ last'.arg.capacity >= 0) =>
        LET k == last'.key
            f == last'.arg
        IN  IF k \in DOMAIN reservoirs
              THEN /\ last'.status = 200
                   /\ reservoirs' = [reservoirs EXCEPT ![k].currentLevel = f.current_level,
                                                        ![k].capacity = f.capacity]
              ELSE /\ last'.err = "NotFound"
                   /\ reservoirs' = reservoirs
    ]_vars

ConsumerOps ==
  {"updateConsumer", "updateConsumerTariff", "updateConsumerReservoir",
   "useWater", "disposeWaste", "payForWater", "payForWaste"}

BalancesUnchanged == wtk' = wtk /\ watc' = watc /\ wst' = wst /\ wstc' = wstc

\* C21  Existence preconditions: register with a tariff or reservoir id that
\* resolves to no record fails (with TariffNotFound, else ReservoirNotFound,
\* for a fresh consumer id), stores no consumer and mints nothing, and the
\* API stores consumers only with ids that resolve; update, reassign,
\* use_water, dispose_waste and pay_* on a consumer id never registered fail
\* with NotFound, the charge routes fail as well, and no balance changes.
ExistencePreconditions ==
  [][ /\ last'.op = "registerConsumer" =>
           LET c == last'.key
               a == last'.arg
           IN  /\ (a.tariff \notin DOMAIN tariffs \/ a.reservoir \notin DOMAIN reservoirs) =>
                     /\ last'.err # "none"
                     /\ consumers' = consumers
                     /\ BalancesUnchanged
               /\ (c \notin DOMAIN consumers /\ a.tariff \notin DOMAIN tariffs) =>
                     last'.err = "TariffNotFound"
               /\ (c \notin DOMAIN consumers /\ a.tariff \in DOMAIN tariffs
                      /\ a.reservoir \notin DOMAIN reservoirs) =>
                     last'.err = "ReservoirNotFound"
      /\ \A c \in DOMAIN consumers' \ DOMAIN consumers :
           /\ consumers'[c].assignedTariff \in DOMAIN tariffs
           /\ consumers'[c].assignedReservoir \in DOMAIN reservoirs
      /\ (last'.op \in ConsumerOps /\ last'.key \notin DOMAIN consumers) =>
           /\ last'.err = "NotFound"
           /\ consumers' = consumers
           /\ BalancesUnchanged
      /\ (last'.op \in {"waterCharge", "wasteCharge"} /\ last'.status = 500
            /\ consumers = << >>) =>
           consumers' = consumers /\ BalancesUnchanged
      /\ (last'.op \in {"waterCharge", "wasteCharge"} /\ consumers = << >>) =>
           last'.status >= 400
    ]_vars

\* a registration naming a tariff that does not exist: refused, nothing stored
ExistencePreconditionsWitness ==
  /\ last.op = "registerConsumer" /\ last.err = "TariffNotFound"
  /\ last.arg.tariff = "x" /\ last.arg.reservoir = "r1"
  /\ consumers = << >> /\ watc = << >>

AmountValidation ==
  [][ /\ (last'.op \in {"useWater", "disposeWaste"} /\ last'.arg.n <= 0) =>
           /\ last'.err # "none"
           /\ BalancesUnchanged
           /\ (/\ last'.key \in DOMAIN consumers
               /\ last'.arg.tariff \in DOMAIN tariffs
               /\ last'.arg.reservoir \in DOMAIN reservoirs \cup {"-"}) =>
                 last'.err = "InvalidAmount"
      /\ last'.op \in {"waterCharge", "wasteCharge"} =>
           /\ last'.err # "InvalidAmount"
           /\ last'.status = 400 => (last'.err = "none" /\ UNCHANGED ledger)
           /\ last'.status = 200 => last'.arg > 0
    ]_vars

\* use_water(0) of the registered c1 refused, its capacity tokens untouched
AmountValidationWitness ==
  /\ last.op = "useWater" /\ last.err = "InvalidAmount" /\ last.arg.n = 0
  /\ last.key = "c1" /\ "c1" \in DOMAIN consumers
  /\ watc["c1"] = consumers["c1"].contractedCapacity /\ wtk["c1"] = 0

\* r is the numerator divided by SCALE and rounded up
RoundsUp(numerator, r) ==
  numerator <= r * SCALE /\ r * SCALE < numerator + SCALE

\* the factor, in units of 1 / SCALE, the excess units are scaled by
ExcessFactor(type, level, capacity) ==
  CASE type = "uniformIbt" -> SCALE
    [] type = "seasonalIbt" -> SeasonalMultiplier(level, capacity)
    [] type = "seasonalDbt" -> DecreasingMultiplier(level, capacity)

\* C24  Ceiling rounding never under-bills: in every successful use_water and
\* dispose_waste each division by SCALE is rounded up (numerator <= result *
\* SCALE < numerator + SCALE), the tokens minted are never worth less than
\* the exact price, and a positive amount at a positive price costs at least
\* one token.
CeilingNeverUnderBills ==
  [][ \A c \in DOMAIN consumers :
        /\ (StepOf("wasteCharge", 200) /\ last'.key = c) =>
              LET minted == wst'[c] - wst[c]
                  rate == TariffOf(c).wasteRate
              IN  /\ RoundsUp(last'.arg * rate, minted)
                  /\ (last'.arg > 0 /\ rate > 0) => minted > 0
        /\ (StepOf("waterCharge", 200) /\ last'.key = c) =>
              LET minted == wtk'[c] - wtk[c]
                  units == Min(last'.arg, watc[c])
                  extra == last'.arg - units
                  type == TariffOf(c).tariffType
                  factor == ExcessFactor(type, ReservoirOf(c).currentLevel,
                                         ReservoirOf(c).capacity)
                  blockRate == consumers[c].blockRate
              IN  /\ \E base \in 0..(MaxBalance + 1) :
                       /\ RoundsUp(units * TariffOf(c).waterRate, base)
                       /\ \E scaled \in 0..(MaxBalance + 1) :
                            /\ RoundsUp(extra * blockRate, scaled)
                            /\ \E excess \in 0..(MaxBalance + 1) :
                                 /\ IF type = "uniformIbt" THEN excess = scaled
                                    ELSE RoundsUp(scaled * factor, excess)
                                 /\ minted = base + excess
                  /\ minted * SCALE * SCALE >=
                       units * TariffOf(c).waterRate * SCALE + extra * blockRate * factor
                  /\ (units > 0 /\ TariffOf(c).waterRate > 0) => minted > 0
                  /\ (extra > 0 /\ blockRate > 0 /\ factor > 0) => minted > 0
    ]_vars

\* one excess unit at block rate 1.5 under a decreasing tariff whose factor
\* is 0.5: the first division leaves a remainder and is rounded up to 2
CeilingNeverUnderBillsWitness ==
  /\ last.op = "waterCharge" /\ last.status = 200 /\ last.arg = 1 /\ last.key = "c1"
  /\ TariffOf("c1").tariffType = "seasonalDbt"
  /\ ReservoirOf("c1").currentLevel = 1500
  /\ consumers["c1"].contractedCapacity = 0
  /\ wtk["c1"] = 1 /\ watc["c1"] = 0

NonNegativeBalances ==
  \A c \in DOMAIN consumers : wtk[c] >= 0 /\ watc[c] >= 0 /\ wst[c] >= 0

\* C25  Capacity burn is bounded by what is held: a successful use_water(amount)
\* burns exactly min(amount, capacity-token balance) capacity tokens, so a
\* draw of at least the balance leaves the balance 0; and no usage-,
\* capacity- or waste-token balance is ever negative.
BoundedCapacityBurn ==
  [][ /\ \A c \in DOMAIN consumers :
           (StepOf("waterCharge", 200) /\ last'.key = c) =>
             /\ watc[c] - watc'[c] = Min(last'.arg, watc[c])
             /\ last'.arg >= watc[c] => watc'[c] = 0
             /\ last'.arg < watc[c] => watc'[c] = watc[c] - last'.arg
      /\ NonNegativeBalances' ]_vars

\* a draw of 3 units by a consumer holding 2 capacity tokens: balance 0
BoundedCapacityBurnWitness ==
  /\ last.op = "waterCharge" /\ last.status = 200 /\ last.key = "c1" /\ last.arg = 3
  /\ consumers["c1"].contractedCapacity = 2
  /\ watc["c1"] = 0
  /\ wtk["c1"] = BaseCost(2, 500) + MulCeilDiv(1, 1500, SCALE)

\* the product a * b lies beyond the largest representable integer
TooLarge(a, b) == b > 0 /\ a > MaxUint \div b

\* an intermediate value of use_water(amount) by consumer c is not
\* representable: a product beyond MaxUint, capacity - current_level below 0
\* or a division by a capacity of 0
UsageOutOfRange(c, tk, rk, amount) ==
  LET units == Min(amount, watc[c])
      extra == amount - units
      type == tariffs[tk].tariffType
      L == reservoirs[rk].currentLevel
      M == reservoirs[rk].capacity
  IN  \/ TooLarge(units, tariffs[tk].waterRate)
      \/ /\ extra > 0
         /\ \/ TooLarge(extra, consumers[c].blockRate)
            \/ type = "seasonalIbt" /\ (L > M \/ TooLarge(consumers[c].blockRate, M - L))
            \/ type = "seasonalDbt" /\ (M = 0 \/ TooLarge(L, SCALE))

\* C26  Overflow guard: a use_water or dispose_waste one of whose intermediate
\* values (amount * rate, block_rate * (capacity - level), level * SCALE,
\* capacity - current_level with current_level > capacity, a division by a
\* capacity of 0) is not representable fails with InvalidAmount or
\* ArithmeticOverflow and changes no balance; what a successful call mints is
\* the cost computed from products that are all representable, never a
\* wrapped one.
OverflowGuard ==
  [][ /\ (last'.op = "useWater" /\ last'.key \in DOMAIN consumers
            /\ last'.arg.n > 0) =>
           LET c == last'.key
               a == last'.arg
               out == UsageOutOfRange(c, a.tariff, a.reservoir, a.n)
           IN  /\ out => /\ last'.err \in {"InvalidAmount", "ArithmeticOverflow"}
                         /\ BalancesUnchanged
               /\ last'.err = "none" =>
                     /\ ~out
                     /\ wtk'[c] - wtk[c] =
                          UsageCost(tariffs[a.tariff].tariffType, a.n, watc[c],
                                    tariffs[a.tariff].waterRate, consumers[c].blockRate,
                                    reservoirs[a.reservoir].currentLevel,
                                    reservoirs[a.reservoir].capacity)
                     /\ wtk'[c] >= wtk[c] /\ wtk'[c] <= MaxUint
      /\ (last'.op = "disposeWaste" /\ last'.key \in DOMAIN consumers
            /\ last'.arg.n > 0) =>
           LET c == last'.key
               a == last'.arg
               out == TooLarge(a.n, tariffs[a.tariff].wasteRate)
           IN  /\ out => /\ last'.err \in {"InvalidAmount", "ArithmeticOverflow"}
                         /\ BalancesUnchanged
               /\ last'.err = "none" =>
                     /\ ~out
                     /\ wst'[c] - wst[c] = WasteCost(a.n, tariffs[a.tariff].wasteRate)
                     /\ wst'[c] >= wst[c] /\ wst'[c] <= MaxUint
    ]_vars

\* a draw of 3000000 units at block rate 1500, whose product is beyond
\* MaxUint, by a consumer that owes 2 usage tokens: refused
OverflowGuardWitness ==
  /\ last.op = "useWater" /\ last.key = "c1" /\ last.arg.n = 3000000
  /\ last.err = "ArithmeticOverflow"
  /\ tariffs["t1"].tariffType = "uniformIbt"
  /\ wtk["c1"] = 2 /\ watc["c1"] = 0

\* a draw beyond the contract under an increasing tariff with the reservoir
\* above its capacity: refused
OverflowGuardAboveCapacityWitness ==
  /\ last.op = "useWater" /\ last.key = "c1" /\ last.arg.n = 2
  /\ last.err = "ArithmeticOverflow"
  /\ tariffs["t1"].tariffType = "seasonalIbt"
  /\ reservoirs["r1"].currentLevel = 2500 /\ reservoirs["r1"].capacity = 1000
  /\ wtk["c1"] = 0 /\ watc["c1"] = 1

LowerLevels(level) == {l \in LimitLevels : l < level /\ ~TooLarge(l, SCALE)}

\* a successful use_water by consumer c beyond its capacity tokens under a
\* seasonalDbt tariff
DecreasingExcessStep(c) ==
  /\ last'.op = "useWater" /\ last'.key = c /\ last'.err = "none"
  /\ tariffs[last'.arg.tariff].tariffType = "seasonalDbt"
  /\ last'.arg.n > watc[c]

\* the usage tokens the step mints for the excess portion
ExcessMinted(c) ==
  (wtk'[c] - wtk[c]) - CeilDiv(watc[c] * tariffs[last'.arg.tariff].waterRate, SCALE)

MutatingRoutes ==
  {"postTariff", "putTariff", "postReservoir", "putReservoir", "postConsumer",
   "putConsumer", "putConsumerTariff", "putConsumerReservoir", "wasteCharge",
   "waterCharge", "wastePay", "waterPay"}

\* the routes that sign with the consumer's keypair
ConsumerSignedRoutes == {"putConsumer", "waterCharge", "waterPay", "wastePay"}

ConsumerGateWitness ==
  /\ last.op = "waterPay" /\ last.key = "c1" /\ last.status = 403
  /\ headers.authorization = AgencySecret
  /\ headers.consumerAuthorization = "malformed"
  /\ wtk["c1"] = 1

\* a waste charge goes through without a Consumer-Authorization header
WasteChargeUnsignedWitness ==
  /\ last.op = "wasteCharge" /\ last.key = "c1" /\ last.status = 200
  /\ headers.authorization = AgencySecret
  /\ headers.consumerAuthorization = NoHeader
  /\ wst["c1"] = 2

\* the routes that look the consumer of the path up before they submit
ConsumerRoutes ==
  {"putConsumer", "putConsumerTariff", "putConsumerReservoir", "waterCharge",
   "wasteCharge", "waterPay", "wastePay"}

\* C31  Error kinds map to response classes: a request whose instruction fails
\* with NotFound or Mismatch is answered 404 or 400, one that fails with
\* InvalidAmount or InsufficientBalance is answered in the 400 class, one
\* that fails with AlreadyExists 409; a valid update, reassignment, charge or
\* payment for a consumer that is not registered is answered 404; and an
\* answer in the 500 class comes from ArithmeticOverflow only.
ErrorClasses ==
  [][ /\ last'.err \in {"NotFound", "Mismatch"} => last'.status \in {400, 404}
      /\ last'.err \in {"InvalidAmount", "InsufficientBalance"} =>
            last'.status \in 400..499
      /\ last'.err = "AlreadyExists" => last'.status = 409
      /\ (last'.op \in ConsumerRoutes /\ last'.key \notin DOMAIN consumers
            /\ last'.status # 400) => last'.status = 404
      /\ last'.status >= 500 => last'.err = "ArithmeticOverflow"
    ]_vars

\* C32  Token-directory middleware: however the requests interleave with the
\* start-up InitOrFetchTokens call, a request reaches its handler only when
\* tokensPromise has resolved, with req.tokens equal to the directory that
\* call returned; the module variable tokens, once assigned, never changes
\* and is that directory; when the start-up call was rejected every
\* request is answered 500 and none reaches its handler; and the
\* middleware never starts another InitOrFetchTokens call.
TokenDirectoryMiddleware ==
  [][ /\ \A req \in pending' :
           /\ req.pc = "next" =>
                 /\ middleware'[req.server].tokensPromise = "resolved"
                 /\ calls'[req.server].pc = "returned"
                 /\ req.tokens # << >>
                 /\ req.tokens = calls'[req.server].result
           /\ calls'[req.server].pc = "failed" => req.pc \in {"await", "500"}
           /\ req.pc = "500" => calls'[req.server].pc = "failed"
      /\ \A p \in Servers :
           /\ middleware[p].tokens # << >> => middleware'[p].tokens = middleware[p].tokens
           /\ middleware'[p].tokens # << >> => middleware'[p].tokens = calls'[p].result
           /\ calls'[p].n <= 1
      /\ pending' # pending => UNCHANGED registry
    ]_vars

\* both servers started without a directory: s1 created it and serves a
\* request with it, the call of s2 was rejected and its request got 500
TokenDirectoryMiddlewareWitness ==
  /\ calls["s1"].pc = "returned" /\ calls["s2"].pc = "failed"
  /\ middleware["s2"].tokens = << >>
  /\ \E r1, r2 \in pending :
       /\ r1.server = "s1" /\ r1.pc = "next" /\ r1.tokens = tokensAccount
       /\ r2.server = "s2" /\ r2.pc = "500"

\* C33  A tariff PUT that supplies both rates and tariff_type is
\* all-or-nothing: when the request ends in an error response after its rate
\* change was stored, the tariff holds the rates it had before the request.
TariffPutAllOrNothing ==
  [][ \A req \in pending :
        (/\ req \notin pending'
         /\ (Truthy(req.arg.water_rate) \/ Truthy(req.arg.waste_rate))
         /\ last'.op = "putTariff" /\ last'.status # 200)
        => /\ tariffs'[req.key].waterRate = req.replaced.waterRate
           /\ tariffs'[req.key].wasteRate = req.replaced.wasteRate
    ]_vars

\* C34  Omitted fields survive concurrent updates: under every interleaving
\* of the PUTs of one consumer, an update that supplied only block_rate
\* leaves the stored contracted capacity and the capacity tokens as they
\* are, and one that supplied only contracted_capacity leaves the stored
\* block rate as it is; a reservoir update without capacity leaves the
\* stored capacity as it is.
OmittedFieldsSurvive ==
  [][ \A req \in pending :
        /\ (/\ req \notin pending'
             /\ req.kind = "putConsumer"
             /\ last'.op = "putConsumer" /\ last'.status = 200)
            => /\ req.contracted_capacity = NoVal =>
                    /\ consumers'[req.key].contractedCapacity =
                         consumers[req.key].contractedCapacity
                    /\ watc' = watc
               /\ req.block_rate = NoVal =>
                    consumers'[req.key].blockRate = consumers[req.key].blockRate
        /\ (/\ req \notin pending'
             /\ req.kind = "putReservoir"
             /\ last'.op = "putReservoir" /\ last'.status = 200
             /\ req.fetched)
            => reservoirs'[req.key].capacity = reservoirs[req.key].capacity
    ]_vars

\* the references a charge request carries are no longer the assigned ones
StaleCharge(req) ==
  \/ req.account.assignedTariff # consumers[req.key].assignedTariff
  \/ req.account.assignedReservoir # consumers[req.key].assignedReservoir

ChargeAfterUpdateWitness ==
  /\ last.op = "waterCharge" /\ last.key = "c1" /\ last.status = 200
  /\ consumers["c1"].blockRate = 1600
  /\ consumers["c1"].assignedTariff = "t2" /\ consumers["c1"].assignedReservoir = "r2"
  /\ wtk["c1"] > 0

\* C36  Registration happens once: a register for a consumer id that is
\* already registered fails with AlreadyExists, leaves the stored consumer
\* records as they are and changes no balance; and a register that succeeds
\* is for an id not registered before and mints exactly the contracted
\* capacity.
RegistrationOnce ==
  [][ last'.op = "registerConsumer" =>
        IF last'.key \in DOMAIN consumers
          THEN /\ last'.status # 200 /\ last'.err = "AlreadyExists"
               /\ consumers' = consumers
               /\ BalancesUnchanged
          ELSE last'.status = 200 =>
                 /\ last'.key \in DOMAIN consumers'
                 /\ watc'[last'.key] = last'.arg.n
                 /\ consumers'[last'.key].contractedCapacity = last'.arg.n
    ]_vars

\* a consumer registered with capacity 1 and updated to 2 is registered
\* again: the record and the two capacity tokens are as before
RegistrationOnceWitness ==
  /\ last.op = "registerConsumer" /\ last.key = "c1" /\ last.err = "AlreadyExists"
  /\ last.arg.n = 1
  /\ consumers["c1"].contractedCapacity = 2
  /\ watc["c1"] = 2

\* C37  Capacity tokens are tied to the contract: every registered consumer
\* holds at least 0 and at most contracted_capacity capacity tokens, a
\* consumer that registers starts with exactly its contracted capacity, and
\* the capacity tokens of a registered consumer change only in a successful
\* update or use_water of that consumer, never in dispose_waste, a payment,
\* a reassignment or an update of a tariff or a reservoir.
CapacityTiedToContract ==
  [][ /\ \A c \in DOMAIN consumers' :
           /\ c \in DOMAIN watc'
           /\ 0 <= watc'[c]
           /\ watc'[c] <= consumers'[c].contractedCapacity
      /\ \A c \in DOMAIN consumers :
           watc'[c] # watc[c] =>
             /\ last'.op \in {"updateConsumer", "useWater"}
             /\ last'.key = c /\ last'.status = 200
      /\ \A c \in DOMAIN consumers' \ DOMAIN consumers :
           /\ last'.op = "registerConsumer" /\ last'.key = c /\ last'.status = 200
           /\ watc'[c] = consumers'[c].contractedCapacity
    ]_vars

\* c1 used up its capacity, had it raised to 2, used the new token and is
\* paying: it holds no capacity token; c2 still holds the one it registered with
CapacityTiedToContractWitness ==
  /\ last.op = "payForWater" /\ last.key = "c1" /\ last.status = 200
  /\ "c2" \in DOMAIN consumers
  /\ consumers["c1"].contractedCapacity = 2 /\ watc["c1"] = 0
  /\ watc["c2"] = 1
  /\ consumers["c1"].assignedTariff = "t2"
  /\ tariffs["t1"].waterRate = 1500

MeteringOps == {"useWater", "disposeWaste", "payForWater", "payForWaste"}

\* the balances of every consumer but c stay as they are
OthersUnchanged(c) ==
  \A k \in DOMAIN consumers \ {c} :
    wtk'[k] = wtk[k] /\ watc'[k] = watc[k] /\ wst'[k] = wst[k]

\* C39  Frame of the metering operations: use_water changes only the usage
\* and capacity tokens of its caller, dispose_waste only the waste tokens,
\* pay_for_water only the usage tokens and pay_for_waste only the waste
\* tokens of its caller (a payment gives no capacity token back); none of
\* them changes a balance of another consumer or any tariff, reservoir or
\* consumer record.
MeteringFrame ==
  [][ last'.op \in MeteringOps =>
        /\ tariffs' = tariffs /\ reservoirs' = reservoirs /\ consumers' = consumers
        /\ wstc' = wstc
        /\ OthersUnchanged(last'.key)
        /\ last'.op = "useWater" => wst' = wst
        /\ last'.op = "disposeWaste" => wtk' = wtk /\ watc' = watc
        /\ last'.op = "payForWater" => watc' = watc /\ wst' = wst
        /\ last'.op = "payForWaste" => wtk' = wtk /\ watc' = watc
    ]_vars

\* c1 pays for waste while c2 holds usage tokens: c1 keeps its usage tokens
\* and gets no capacity token back
MeteringFrameWitness ==
  /\ last.op = "payForWaste" /\ last.key = "c1" /\ last.status = 200
  /\ "c2" \in DOMAIN consumers
  /\ wtk["c2"] > 0 /\ wst["c2"] = 0
  /\ wtk["c1"] > 0 /\ watc["c1"] = 0

====
